---- MODULE Spec2Model ----
(***************************************************************************)
(* The fixed-step scheduler (engine/engineLoop.ts) and the engine          *)
(* singleton (engine/singleton.ts) of world-sim-2-server.                  *)
(*                                                                         *)
(* The host is single-threaded: a tick runs to completion once its timer   *)
(* has fired, and the only code that runs inside a tick besides the tick   *)
(* itself is the registered callbacks, which may call back into the API.   *)
(* A tick is therefore modelled as a run from the timer firing to the      *)
(* first callback invocation, from each callback's end to the next         *)
(* invocation, and from the last one to the rescheduling of the timer.     *)
(***************************************************************************)
EXTENDS Integers, Sequences, FiniteSets, TLC

\* ---------------------------------------------------------------- bounds

\* Engine loops that may be created in one behaviour.
MaxLoops == 2
\* Largest stepNumber a loop is ticked to.
MaxStep == 4
\* API calls that callbacks may make during one tick.
MaxCalls == 2
\* Distinct callback functions a caller may pass.
MaxFn == 2

\* --------------------------------------------------- program constants

\* config/schema.ts: dtGameStepSeconds is the literal 60.
DtGameStepSeconds == 60
MINUTES_PER_HOUR == 60
HOURS_PER_DAY == 24
SECONDS_PER_MINUTE == 60

\* ----------------------------------------------------------- input sets

HandlerNames == {"h1", "h2"}
\* "7" is an integer-like property name: a JavaScript object enumerates
\* such keys before its other keys, whatever the insertion order.
SystemNames == {"atmo", "7"}
IntegerLikeNames == {"7"}
\* cadenceSeconds arguments; 0 is rejected by registerSystem.
CadenceArgs == {0, 30, 60, 90, 150}
Fns == 1..MaxFn
\* The handler of a restore placeholder, () => { }.
NoopFn == 0
NoTimer == 0
NoEngine == 0
NoState == [none |-> TRUE]

VARIABLES
  loops,         \* sequence of engine loops created so far (closure state)
  timers,        \* pending host timers: set of [id, eng]
  activeEngine,  \* singleton.ts: activeEngine (NoEngine for null)
  pc,            \* "idle" | "inHandler" | "inSystem"
  cur,           \* the loop whose tick is executing (NoEngine when idle)
  hIdx,          \* handlers visited by the tick's Map iterator
  sIdx,          \* systems visited by the tick's Map iterator
  calls,         \* API calls made by callbacks in the executing tick
  tickLog,       \* callbacks invoked in the latest tick, in order
  hist,          \* per loop: one summary per completed tick
  unreg,         \* unregister closures handed out: [eng, kind, name, fn]
  saved,         \* the latest EngineLoopState returned by serialize
  lastCall       \* the latest API call: [op, threw, inTick]

vars == <<loops, timers, activeEngine, pc, cur, hIdx, sIdx, calls, tickLog,
          hist, unreg, saved, lastCall>>

\* The world singleton and the tile caches (land chunk managers).
NoWorld == [none |-> TRUE]
NoNode == 0

VARIABLES
  managers,      \* sequence of land chunk managers created so far
  worldState,    \* worldSingleton.ts: worldState (NoWorld for null)
  recent,        \* per manager: keys passed to getChunk, latest first
  held,          \* the chunk objects getChunk returned, as the caller sees them
  cret           \* the latest call on a manager or the world: its result

cvars == <<managers, worldState, recent, held, cret>>

\* The surface-water router and the random number streams.
NoHydro == [pc |-> "none"]
NoRng == [none |-> TRUE]

VARIABLES
  hydro,         \* a call into the land code: its arguments, locals and result
  rng            \* an Rng manager, its streams and the values drawn

xvars == <<hydro, rng>>

\* No routing call and no Rng manager exist.
Elsewhere == hydro = NoHydro /\ rng = NoRng

\* ------------------------------------------------------------ sequences

RECURSIVE IndexOf(_, _, _)
\* Position of the entry named n in a Map's entry list from position i on
\* (0: absent).
IndexOf(s, n, i) ==
  IF i > Len(s) THEN 0
  ELSE IF s[i].name = n THEN i
  ELSE IndexOf(s, n, i + 1)

Has(s, n) == IndexOf(s, n, 1) # 0

RemoveAt(s, i) == SubSeq(s, 1, i - 1) \o SubSeq(s, i + 1, Len(s))

\* Map.prototype.delete: the entry leaves the list, the others keep order.
MapDelete(s, n) == IF Has(s, n) THEN RemoveAt(s, IndexOf(s, n, 1)) ELSE s

\* -------------------------------------------------------------- gameTime

createGameTime(totalMinutes) ==
  [totalMinutes |-> totalMinutes,
   minute |-> totalMinutes % MINUTES_PER_HOUR,
   hour |-> (totalMinutes \div MINUTES_PER_HOUR) % HOURS_PER_DAY]

\* An advance that takes the seconds for minutes.
advanceTimeUnconverted(time, deltaSeconds) ==
  createGameTime(time.totalMinutes + deltaSeconds)

advanceTime(time, deltaSeconds) ==
  createGameTime(time.totalMinutes + deltaSeconds \div SECONDS_PER_MINUTE)

serializeGameTime(time) == [totalMinutes |-> time.totalMinutes]

deserializeGameTime(state) == createGameTime(state.totalMinutes)

\* ------------------------------------------------- JavaScript objects

IntegerValue(n) == IF n = "7" THEN 7 ELSE 0

\* obj[key] = value on a plain object, the object being the sequence of its
\* entries in enumeration order (the order of Object.entries): an existing
\* key keeps its place, a new integer-like key goes among the integer-like
\* keys in ascending order, before every other key, and any other new key
\* goes last.
ObjectSet(obj, entry) ==
  IF Has(obj, entry.name)
  THEN [obj EXCEPT ![IndexOf(obj, entry.name, 1)] = entry]
  ELSE IF entry.name \in IntegerLikeNames
  THEN LET k == Cardinality({i \in 1..Len(obj) :
                  /\ obj[i].name \in IntegerLikeNames
                  /\ IntegerValue(obj[i].name) < IntegerValue(entry.name)})
       IN SubSeq(obj, 1, k) \o <<entry>> \o SubSeq(obj, k + 1, Len(obj))
  ELSE Append(obj, entry)

\* ------------------------------------------------------------ host timers

TimerIds(tm) == {t.id : t \in tm}

\* The handle setTimeout returns is new: no pending timer and no timerId
\* variable (which may still hold a fired timer) refers to it.  Handles are
\* opaque, so the least unused number stands for it.
FreshTimer(W) ==
  LET used == TimerIds(W.timers) \cup {W.loops[i].timerId : i \in 1..Len(W.loops)}
  IN CHOOSE id \in 1..(Cardinality(used) + 1) : id \notin used

setTimeout(W, e) == W.timers \cup {[id |-> FreshTimer(W), eng |-> e]}

clearTimeout(tm, id) == {t \in tm : t.id # id}

\* ------------------------------------------------------- createEngineLoop

RECURSIVE RestoreSystems(_, _)
\* The placeholder entries made from initialState.accumulators, in the
\* order of Object.entries.
RestoreSystems(accumulators, i) ==
  IF i > Len(accumulators) THEN <<>>
  ELSE <<[name |-> accumulators[i].name,
          cadenceSeconds |-> accumulators[i].cadenceSeconds,
          accumulated |-> accumulators[i].accumulated,
          handler |-> NoopFn]>> \o RestoreSystems(accumulators, i + 1)

createEngineLoop(initialState) ==
  [gameTime |-> IF initialState = NoState THEN createGameTime(0)
                ELSE deserializeGameTime(initialState.gameTime),
   stepNumber |-> IF initialState = NoState THEN 0 ELSE initialState.stepNumber,
   running |-> FALSE,
   timerId |-> NoTimer,
   handlers |-> <<>>,
   systems |-> IF initialState = NoState THEN <<>>
               ELSE RestoreSystems(initialState.accumulators, 1)]

restoreEngineLoop(state) == createEngineLoop(state)

\* ------------------------------------------------- the loop's operations
\* Each takes and returns W = [loops, timers], so that callers compose them
\* as the code does.

registerHandlerThrows(L, name) == Has(L.handlers, name)

\* A registerHandler that sets the Map entry of a registered name anew.
registerHandlerOverwrite(L, name, fn) ==
  IF Has(L.handlers, name)
  THEN [L EXCEPT !.handlers[IndexOf(L.handlers, name, 1)].handler = fn]
  ELSE [L EXCEPT !.handlers = Append(@, [name |-> name, handler |-> fn])]

registerHandler(L, name, fn) ==
  IF registerHandlerThrows(L, name) THEN L
  ELSE [L EXCEPT !.handlers = Append(@, [name |-> name, handler |-> fn])]

registerSystemThrows(cadenceSeconds) == cadenceSeconds <= 0

\* A registerSystem that replaces the entry of an existing name.
registerSystemReplace(L, name, cadenceSeconds, fn) ==
  IF registerSystemThrows(cadenceSeconds) THEN L
  ELSE IF Has(L.systems, name)
  THEN [L EXCEPT !.systems[IndexOf(L.systems, name, 1)] =
          [name |-> name, cadenceSeconds |-> cadenceSeconds,
           accumulated |-> 0, handler |-> fn]]
  ELSE [L EXCEPT !.systems = Append(@, [name |-> name,
                                         cadenceSeconds |-> cadenceSeconds,
                                         accumulated |-> 0,
                                         handler |-> fn])]

registerSystem(L, name, cadenceSeconds, fn) ==
  IF registerSystemThrows(cadenceSeconds) THEN L
  ELSE IF Has(L.systems, name)
  THEN [L EXCEPT !.systems[IndexOf(L.systems, name, 1)].handler = fn]
  ELSE [L EXCEPT !.systems = Append(@, [name |-> name,
                                         cadenceSeconds |-> cadenceSeconds,
                                         accumulated |-> 0,
                                         handler |-> fn])]

start(W, e) ==
  IF W.loops[e].running THEN W
  ELSE [loops |-> [W.loops EXCEPT ![e].running = TRUE,
                                    ![e].timerId = FreshTimer(W)],
        timers |-> setTimeout(W, e)]

stop(W, e) ==
  IF ~W.loops[e].running THEN W
  ELSE [loops |-> [W.loops EXCEPT ![e].running = FALSE,
                                    ![e].timerId = NoTimer],
        timers |-> IF W.loops[e].timerId # NoTimer
                   THEN clearTimeout(W.timers, W.loops[e].timerId)
                   ELSE W.timers]

RECURSIVE SerializeAccumulators(_, _)
SerializeAccumulators(systems, i) ==
  IF i = 0 THEN <<>>
  ELSE ObjectSet(SerializeAccumulators(systems, i - 1),
                 [name |-> systems[i].name,
                  accumulated |-> systems[i].accumulated,
                  cadenceSeconds |-> systems[i].cadenceSeconds])

\* A serialize that writes every accumulator as empty.
serializeEmpty(L) ==
  [gameTime |-> serializeGameTime(L.gameTime),
   stepNumber |-> L.stepNumber,
   accumulators |-> [i \in 1..Len(L.systems) |->
                       [name |-> L.systems[i].name,
                        accumulated |-> 0,
                        cadenceSeconds |-> L.systems[i].cadenceSeconds]]]

serialize(L) ==
  [gameTime |-> serializeGameTime(L.gameTime),
   stepNumber |-> L.stepNumber,
   accumulators |-> SerializeAccumulators(L.systems, Len(L.systems))]

\* ------------------------------------------------------------------ tick
\* A run of tick() from one point to the next callback invocation, or to its
\* end: [W, pc, hIdx, sIdx, inv], inv being the invocation it stops at.

Invocation(kind, entry) ==
  [kind |-> kind, name |-> entry.name, fn |-> entry.handler, threw |-> FALSE]

\* Lines 125-127: advance game time, count the step.
BeginTick(W, e) ==
  [W EXCEPT !.loops[e].gameTime = advanceTime(@, DtGameStepSeconds),
            !.loops[e].stepNumber = @ + 1]

\* Lines 164-168: the self-correcting reschedule.
EndTick(W, e) ==
  IF W.loops[e].running
  THEN [loops |-> [W.loops EXCEPT ![e].timerId = FreshTimer(W)],
        timers |-> setTimeout(W, e)]
  ELSE W

\* An accumulator that starts again from zero when its system fires.
AccumulateReset(entry) ==
  LET acc == entry.accumulated + DtGameStepSeconds
  IN IF acc >= entry.cadenceSeconds
     THEN [due |-> TRUE, accumulated |-> 0]
     ELSE [due |-> FALSE, accumulated |-> acc]

\* An accumulator that keeps the cadence of a firing.
AccumulateKeep(entry) ==
  LET acc == entry.accumulated + DtGameStepSeconds
  IN [due |-> acc >= entry.cadenceSeconds, accumulated |-> acc]

\* One system entry's accumulator step (lines 146-148): whether it is due,
\* and the accumulated value it is left with.
Accumulate(entry) ==
  LET acc == entry.accumulated + DtGameStepSeconds
  IN IF acc >= entry.cadenceSeconds
     THEN [due |-> TRUE, accumulated |-> acc - entry.cadenceSeconds]
     ELSE [due |-> FALSE, accumulated |-> acc]

RECURSIVE RunSystems(_, _, _, _)
\* Lines 145-155, the Map iterator having visited si entries.
RunSystems(W, e, hi, si) ==
  IF si >= Len(W.loops[e].systems)
  THEN [W |-> EndTick(W, e), pc |-> "idle", hIdx |-> hi, sIdx |-> si, inv |-> <<>>]
  ELSE LET entry == W.loops[e].systems[si + 1]
           a == Accumulate(entry)
           W2 == [W EXCEPT !.loops[e].systems[si + 1].accumulated = a.accumulated]
       IN IF a.due
          THEN [W |-> W2, pc |-> "inSystem", hIdx |-> hi, sIdx |-> si + 1,
                inv |-> <<Invocation("system", entry)>>]
          ELSE RunSystems(W2, e, hi, si + 1)

\* A handlers loop that is left after its first handler.
RunHandlersBreak(W, e, hi) ==
  IF hi = 0 /\ Len(W.loops[e].handlers) > 0
  THEN [W |-> W, pc |-> "inHandler", hIdx |-> 1, sIdx |-> 0,
        inv |-> <<Invocation("handler", W.loops[e].handlers[1])>>]
  ELSE RunSystems(W, e, hi, 0)

\* Lines 136-142, the Map iterator having visited hi entries; the systems
\* follow once it is exhausted.
RunHandlers(W, e, hi) ==
  IF hi < Len(W.loops[e].handlers)
  THEN [W |-> W, pc |-> "inHandler", hIdx |-> hi + 1, sIdx |-> 0,
        inv |-> <<Invocation("handler", W.loops[e].handlers[hi + 1])>>]
  ELSE RunSystems(W, e, hi, 0)

\* tick() from its first line.
tick(W, e) == RunHandlers(BeginTick(W, e), e, 0)

\* tick() from the end of a callback that returned.
AfterReturn(W, e, phase, hi, si) ==
  IF phase = "inHandler" THEN RunHandlers(W, e, hi) ELSE RunSystems(W, e, hi, si)

\* An exception that escapes tick(): the host's timer callback ends there.
AfterThrowUncaught(W, e, phase, hi, si) ==
  [W |-> W, pc |-> "idle", hIdx |-> hi, sIdx |-> si, inv |-> <<>>]

\* tick() from the end of a callback that threw: the catch clauses of lines
\* 139-141 and 151-153 log the error and the loops go on.
AfterThrow(W, e, phase, hi, si) == AfterReturn(W, e, phase, hi, si)

\* What a completed tick leaves in hist.
Summary(L, log) ==
  [stepNumber |-> L.stepNumber,
   totalMinutes |-> L.gameTime.totalMinutes,
   fired |-> {[name |-> log[i].name, fn |-> log[i].fn] :
                i \in {j \in 1..Len(log) : log[j].kind = "system"}}]

\* ------------------------------------------------------ engine singleton

startEngineThrows(ls, active) == active # NoEngine /\ ls[active].running

\* startEngine and restoreAndStartEngine after their guard: create the loop
\* from initialState (NoState for startEngine), make it the active engine,
\* start it.  [W, activeEngine].
createAndStart(W, initialState) ==
  LET e == Len(W.loops) + 1
      W1 == [W EXCEPT !.loops = Append(@, createEngineLoop(initialState))]
  IN [W |-> start(W1, e), activeEngine |-> e]

\* A startEngine without its guard.
startEngineUnguarded(W, active) == createAndStart(W, NoState)

startEngine(W, active) ==
  IF startEngineThrows(W.loops, active) THEN [W |-> W, activeEngine |-> active]
  ELSE createAndStart(W, NoState)

restoreAndStartEngine(W, active, state) ==
  IF startEngineThrows(W.loops, active) THEN [W |-> W, activeEngine |-> active]
  ELSE createAndStart(W, state)

\* A stopEngine that leaves the stopped engine in the slot.
stopEngineKeepSlot(W, active) ==
  IF active # NoEngine THEN [W |-> stop(W, active), activeEngine |-> active]
  ELSE [W |-> W, activeEngine |-> active]

stopEngine(W, active) ==
  IF active # NoEngine THEN [W |-> stop(W, active), activeEngine |-> NoEngine]
  ELSE [W |-> W, activeEngine |-> active]

getActiveEngine(active) == active

isEngineRunning(ls, active) == active # NoEngine /\ ls[active].running

\* ================================================================ actions

World == [loops |-> loops, timers |-> timers]

Loops == 1..Len(loops)

\* The API is called by the host between ticks, or by a callback during one
\* (the placeholder handler of a restored system has an empty body).
CanCall ==
  IF pc = "idle" THEN TRUE
  ELSE calls < MaxCalls /\ tickLog[Len(tickLog)].fn # NoopFn

\* The engine loop and the engine singleton hold no reference to the world
\* or to a tile cache.
Called(op, threw) ==
  /\ calls' = IF pc = "idle" THEN calls ELSE calls + 1
  /\ lastCall' = [op |-> op, threw |-> threw, inTick |-> pc # "idle"]
  /\ UNCHANGED <<cvars, xvars>>

Start(e) ==
  /\ CanCall
  /\ LET W2 == start(World, e)
     IN loops' = W2.loops /\ timers' = W2.timers
  /\ Called("start", FALSE)
  /\ UNCHANGED <<activeEngine, pc, cur, hIdx, sIdx, tickLog, hist, unreg, saved>>

Stop(e) ==
  /\ CanCall
  /\ LET W2 == stop(World, e)
     IN loops' = W2.loops /\ timers' = W2.timers
  /\ Called("stop", FALSE)
  /\ UNCHANGED <<activeEngine, pc, cur, hIdx, sIdx, tickLog, hist, unreg, saved>>

Closure(e, kind, name, fn) == [eng |-> e, kind |-> kind, name |-> name, fn |-> fn]

RegisterHandler(e, name, fn) ==
  /\ CanCall
  /\ loops' = [loops EXCEPT ![e] = registerHandler(@, name, fn)]
  /\ unreg' = IF registerHandlerThrows(loops[e], name) THEN unreg
              ELSE unreg \cup {Closure(e, "handler", name, fn)}
  /\ Called("registerHandler", registerHandlerThrows(loops[e], name))
  /\ UNCHANGED <<timers, activeEngine, pc, cur, hIdx, sIdx, tickLog, hist, saved>>

RegisterSystem(e, name, cadenceSeconds, fn) ==
  /\ CanCall
  /\ loops' = [loops EXCEPT ![e] = registerSystem(@, name, cadenceSeconds, fn)]
  /\ unreg' = IF registerSystemThrows(cadenceSeconds) THEN unreg
              ELSE unreg \cup {Closure(e, "system", name, fn)}
  /\ Called("registerSystem", registerSystemThrows(cadenceSeconds))
  /\ UNCHANGED <<timers, activeEngine, pc, cur, hIdx, sIdx, tickLog, hist, saved>>

\* An iterator that keeps its count when an entry is deleted.
IterAfterDeleteStay(idx, pos) == idx

\* A Map iterator that has visited idx entries, after the entry at position
\* pos (0: none) was deleted: the entries not yet visited stay the same.
IterAfterDelete(idx, pos) == IF pos # 0 /\ pos <= idx THEN idx - 1 ELSE idx

\* The closure returned by registerHandler: handlers.delete(name).
UnregisterHandler(u) ==
  /\ CanCall
  /\ u.kind = "handler"
  /\ loops' = [loops EXCEPT ![u.eng].handlers = MapDelete(@, u.name)]
  /\ hIdx' = IF pc = "inHandler" /\ cur = u.eng
             THEN IterAfterDelete(hIdx, IndexOf(loops[u.eng].handlers, u.name, 1))
             ELSE hIdx
  /\ Called("unregisterHandler", FALSE)
  /\ UNCHANGED <<timers, activeEngine, pc, cur, sIdx, tickLog, hist, unreg, saved>>

\* The closure returned by registerSystem: systems.delete(name).
UnregisterSystem(u) ==
  /\ CanCall
  /\ u.kind = "system"
  /\ loops' = [loops EXCEPT ![u.eng].systems = MapDelete(@, u.name)]
  /\ sIdx' = IF pc = "inSystem" /\ cur = u.eng
             THEN IterAfterDelete(sIdx, IndexOf(loops[u.eng].systems, u.name, 1))
             ELSE sIdx
  /\ Called("unregisterSystem", FALSE)
  /\ UNCHANGED <<timers, activeEngine, pc, cur, hIdx, tickLog, hist, unreg, saved>>

Serialize(e) ==
  /\ CanCall
  /\ saved' = serialize(loops[e])
  /\ Called("serialize", FALSE)
  /\ UNCHANGED <<loops, timers, activeEngine, pc, cur, hIdx, sIdx, tickLog, hist, unreg>>

RestoreEngineLoop ==
  /\ pc = "idle"
  /\ Len(loops) < MaxLoops
  /\ saved # NoState
  /\ loops' = Append(loops, restoreEngineLoop(saved))
  /\ hist' = Append(hist, <<>>)
  /\ Called("restoreEngineLoop", FALSE)
  /\ UNCHANGED <<timers, activeEngine, pc, cur, hIdx, sIdx, tickLog, unreg, saved>>

\* The three singleton functions; a refused start creates no loop.
Singleton(op, r, threw) ==
  /\ loops' = r.W.loops
  /\ timers' = r.W.timers
  /\ activeEngine' = r.activeEngine
  /\ hist' = IF Len(r.W.loops) > Len(loops) THEN Append(hist, <<>>) ELSE hist
  /\ Called(op, threw)
  /\ UNCHANGED <<pc, cur, hIdx, sIdx, tickLog, unreg, saved>>

StartEngine ==
  /\ pc = "idle"
  /\ startEngineThrows(loops, activeEngine) \/ Len(loops) < MaxLoops
  /\ Singleton("startEngine", startEngine(World, activeEngine),
               startEngineThrows(loops, activeEngine))

RestoreAndStartEngine ==
  /\ pc = "idle"
  /\ saved # NoState
  /\ startEngineThrows(loops, activeEngine) \/ Len(loops) < MaxLoops
  /\ Singleton("restoreAndStartEngine",
               restoreAndStartEngine(World, activeEngine, saved),
               startEngineThrows(loops, activeEngine))

StopEngine ==
  /\ pc = "idle"
  /\ Singleton("stopEngine", stopEngine(World, activeEngine), FALSE)

\* The variables a run of tick() leaves behind.
Ran(e, r, log) ==
  /\ loops' = r.W.loops
  /\ timers' = r.W.timers
  /\ pc' = r.pc
  /\ cur' = IF r.pc = "idle" THEN NoEngine ELSE e
  /\ hIdx' = IF r.pc = "idle" THEN 0 ELSE r.hIdx
  /\ sIdx' = IF r.pc = "idle" THEN 0 ELSE r.sIdx
  /\ tickLog' = log \o r.inv
  /\ hist' = IF r.pc = "idle"
             THEN [hist EXCEPT ![e] = Append(@, Summary(r.W.loops[e], log))]
             ELSE hist
  /\ UNCHANGED <<cvars, xvars>>

\* A pending timer fires: the host calls tick().
TimerFires(t) ==
  /\ pc = "idle"
  /\ t \in timers
  /\ loops[t.eng].stepNumber < MaxStep
  /\ Ran(t.eng, tick([loops |-> loops, timers |-> timers \ {t}], t.eng), <<>>)
  /\ calls' = 0
  /\ UNCHANGED <<activeEngine, unreg, saved, lastCall>>

CallbackReturns ==
  /\ pc # "idle"
  /\ Ran(cur, AfterReturn(World, cur, pc, hIdx, sIdx), tickLog)
  /\ calls' = IF pc' = "idle" THEN 0 ELSE calls
  /\ UNCHANGED <<activeEngine, unreg, saved, lastCall>>

CallbackThrows ==
  /\ pc # "idle"
  /\ tickLog[Len(tickLog)].fn # NoopFn
  /\ Ran(cur, AfterThrow(World, cur, pc, hIdx, sIdx),
         [tickLog EXCEPT ![Len(tickLog)].threw = TRUE])
  /\ calls' = IF pc' = "idle" THEN 0 ELSE calls
  /\ UNCHANGED <<activeEngine, unreg, saved, lastCall>>

\* ========================================================= specifications

\* No world has been initialized and no manager created.
\* No manager and no world exist.
CacheAbsent ==
  /\ managers = <<>>
  /\ worldState = NoWorld
  /\ recent = <<>>
  /\ held = <<>>
  /\ cret = [op |-> "none"]

WorldAbsent == CacheAbsent /\ Elsewhere

EngineStarted(ls, sv) ==
  /\ loops = ls
  /\ timers = {}
  /\ activeEngine = NoEngine
  /\ pc = "idle"
  /\ cur = NoEngine
  /\ hIdx = 0
  /\ sIdx = 0
  /\ calls = 0
  /\ tickLog = <<>>
  /\ hist = [i \in 1..Len(ls) |-> <<>>]
  /\ unreg = {}
  /\ saved = sv
  /\ lastCall = [op |-> "none", threw |-> FALSE, inTick |-> FALSE]

Started(ls, sv) == EngineStarted(ls, sv) /\ WorldAbsent

\* An EngineLoopState as serialize returns it after one tick of a loop with
\* the systems "7" (cadence 90) and "atmo" (cadence 150).
RestoredState ==
  [gameTime |-> [totalMinutes |-> 1],
   stepNumber |-> 1,
   accumulators |-> <<[name |-> "7", accumulated |-> 60, cadenceSeconds |-> 90],
                      [name |-> "atmo", accumulated |-> 60, cadenceSeconds |-> 150]>>]

\* ------------------------------------------------------------- setups
\* A caller's registrations before the loop is started: the handlers
\* hs = <<[name, fn], ...>> and the systems ss = <<[name, cadence, fn], ...>>,
\* registered in that order.

RECURSIVE RegisterHandlers(_, _, _)
RegisterHandlers(L, hs, i) ==
  IF i > Len(hs) THEN L
  ELSE RegisterHandlers(registerHandler(L, hs[i].name, hs[i].fn), hs, i + 1)

RECURSIVE RegisterSystems(_, _, _)
RegisterSystems(L, ss, i) ==
  IF i > Len(ss) THEN L
  ELSE RegisterSystems(registerSystem(L, ss[i].name, ss[i].cadence, ss[i].fn),
                       ss, i + 1)

Configured(L, hs, ss) == RegisterSystems(RegisterHandlers(L, hs, 1), ss, 1)

ValidCadences == {c \in CadenceArgs : ~registerSystemThrows(c)}

HandlerSetups ==
  {<<>>} \cup {<<[name |-> "h1", fn |-> 1]>>}
         \cup {<<[name |-> "h1", fn |-> 1], [name |-> "h2", fn |-> 2]>>}

SystemSetups ==
  {<<>>}
  \cup {<<[name |-> n, cadence |-> c, fn |-> 1]>> : n \in SystemNames, c \in ValidCadences}
  \cup {<<[name |-> n, cadence |-> c, fn |-> 1], [name |-> m, cadence |-> d, fn |-> 2]>> :
          n \in SystemNames, m \in SystemNames \ {"7"}, c \in ValidCadences, d \in ValidCadences}

\* ---- Spec: one fresh loop with its registrations made, then started,
\* stopped and ticked; callbacks return, throw, and call start and stop.

Init ==
  \E hs \in HandlerSetups, ss \in SystemSetups :
    /\ Started(<<Configured(createEngineLoop(NoState), hs, ss)>>, NoState)

Next ==
  \/ Start(1)
  \/ Stop(1)
  \/ \E t \in timers : TimerFires(t)
  \/ CallbackReturns
  \/ CallbackThrows

Spec == Init /\ [][Next]_vars

\* ----------------------------------------------------- claims under Spec

\* Whether a system of cadence c, registered on a fresh loop before its
\* first tick, is due in tick n: its accumulator crosses a multiple of c
\* (a cadence of at most one step is due in every tick).
ExpectedDue(c, n) ==
  IF c <= DtGameStepSeconds THEN TRUE
  ELSE (DtGameStepSeconds * n) \div c > (DtGameStepSeconds * (n - 1)) \div c

RECURSIVE DueSystems(_, _, _)
DueSystems(systems, n, i) ==
  IF i > Len(systems) THEN <<>>
  ELSE (IF ExpectedDue(systems[i].cadenceSeconds, n)
        THEN <<[kind |-> "system", name |-> systems[i].name, fn |-> systems[i].handler]>>
        ELSE <<>>) \o DueSystems(systems, n, i + 1)

\* The callbacks a complete tick of loop L invokes, in order.
ExpectedLog(L) ==
  [i \in 1..Len(L.handlers) |->
     [kind |-> "handler", name |-> L.handlers[i].name, fn |-> L.handlers[i].handler]]
  \o DueSystems(L.systems, L.stepNumber, 1)

Invoked(log) ==
  [i \in 1..Len(log) |-> [kind |-> log[i].kind, name |-> log[i].name, fn |-> log[i].fn]]

\* The latest tick invoked every handler and every due system.
LogComplete == Invoked(tickLog) = ExpectedLog(loops[1])

PendingOf(e) == {t \in timers : t.eng = e}

\* C3: when stop is called from inside a handler or system during a tick,
\* the tick still runs its remaining handlers and due systems (every tick
\* that completes has invoked all of them), and after that tick no tick
\* begins as long as no further call (such as start) is made.
C3_StopInsideTick ==
  [][/\ (pc # "idle" /\ pc' = "idle") => LogComplete'
     /\ (pc = "idle" /\ lastCall.op = "stop" /\ lastCall.inTick)
          => loops'[1].stepNumber = loops[1].stepNumber]_vars

\* C4: after stop was called between ticks, and until another call is made,
\* stepNumber and gameTime do not change and no callback is invoked; stop on
\* a loop that is not running changes nothing.
C4_StopBetweenTicks ==
  [][/\ (lastCall.op = "stop" /\ ~lastCall.inTick)
          => /\ loops'[1].stepNumber = loops[1].stepNumber
             /\ loops'[1].gameTime = loops[1].gameTime
             /\ pc' = "idle"
     /\ (Stop(1) /\ ~loops[1].running) => UNCHANGED <<loops, timers>>]_vars

\* C5: a callback that throws changes nothing in the course of the tick:
\* every completed tick has invoked every registered handler and every due
\* system, whichever of them threw, and a running loop has its next tick
\* scheduled, so the same holds of the later ticks.
C5_ThrowIsolated ==
  (pc = "idle" /\ hist[1] # <<>>)
    => /\ LogComplete
       /\ loops[1].running => PendingOf(1) # {}

\* A second tick in which a handler threw, a system after it threw too, and
\* another system was still invoked after both.
C5_Witness ==
  /\ pc = "idle"
  /\ Len(hist[1]) >= 2
  /\ \E i, j, k \in 1..Len(tickLog) :
       /\ i < j /\ j < k
       /\ tickLog[i].kind = "handler" /\ tickLog[i].threw
       /\ tickLog[j].kind = "system" /\ tickLog[j].threw
       /\ tickLog[k].kind = "system"

\* C10: a start call on a running loop changes nothing (running, timerId and
\* the pending timers are as before, so no additional tick is scheduled),
\* and after it the loop has one tick pending per interval: at most one
\* pending timer, and exactly one between ticks.
C10_StartWhileRunning ==
  [][(Start(1) /\ loops[1].running)
       => /\ UNCHANGED <<loops, timers>>
          /\ Cardinality(PendingOf(1)') <= 1
          /\ pc' = "idle" => Cardinality(PendingOf(1)') = 1]_vars

\* ---- SpecHandlers: a fresh loop with its systems registered, whose
\* handlers are registered and unregistered before, between and during ticks.

\* Ticks a loop is run for when its registry changes.
MaxRegistryTicks == 2

HandlerSpecSetups ==
  {<<>>,
   <<[name |-> "atmo", cadence |-> 60, fn |-> 1]>>,
   <<[name |-> "7", cadence |-> 60, fn |-> 1], [name |-> "atmo", cadence |-> 90, fn |-> 2]>>}

InitHandlers ==
  \E ss \in HandlerSpecSetups :
    Started(<<Configured(createEngineLoop(NoState), <<>>, ss)>>, NoState)

NextHandlers ==
  \/ \E n \in HandlerNames, f \in Fns : RegisterHandler(1, n, f)
  \/ \E u \in unreg : UnregisterHandler(u)
  \/ (pc = "idle" /\ Start(1))
  \/ \E t \in timers : Len(hist[1]) < MaxRegistryTicks /\ TimerFires(t)
  \/ CallbackReturns

SpecHandlers == InitHandlers /\ [][NextHandlers]_vars

\* ---- SpecSystems: one loop, fresh or restored from RestoredState, whose
\* systems are registered and unregistered before, between and during ticks.

\* The cadence arguments differ from the restored cadences, so an entry
\* that has a restored cadence is the entry the restore made.
RegistryCadences == {0, 60}

InitSystems ==
  \E s \in {NoState, RestoredState} : Started(<<createEngineLoop(s)>>, s)

NextSystems ==
  \/ \E n \in SystemNames, c \in RegistryCadences, f \in Fns : RegisterSystem(1, n, c, f)
  \/ \E u \in unreg : UnregisterSystem(u)
  \/ (pc = "idle" /\ Start(1))
  \/ \E t \in timers : Len(hist[1]) < MaxRegistryTicks /\ TimerFires(t)
  \/ CallbackReturns

SpecSystems == InitSystems /\ [][NextSystems]_vars

\* ------------------------------------------- claims about the registries

FiredNames(summary) == {x.name : x \in summary.fired}

\* Ticks of loop e in which the system named n fired.
Fires(e, n) == Cardinality({j \in 1..Len(hist[e]) : n \in FiredNames(hist[e][j])})

\* C2 as stated: on a fresh loop, a system registered before the first tick
\* with cadence c has, after the N ticks made so far, fired floor(60 N / c)
\* times, and its accumulator is (60 N) mod c.
C2_CadenceFiring_AnyCadence ==
  pc = "idle" =>
    \A i \in 1..Len(loops[1].systems) :
      LET s == loops[1].systems[i]
          elapsed == DtGameStepSeconds * loops[1].stepNumber
      IN /\ Fires(1, s.name) = elapsed \div s.cadenceSeconds
         /\ s.accumulated = elapsed % s.cadenceSeconds

\* C2, amended: the same for every cadence c >= 60 (a whole number of
\* seconds): the system has fired floor(60 N / c) times and its accumulator
\* is (60 N) mod c.
C2_CadenceFiring ==
  pc = "idle" =>
    \A i \in 1..Len(loops[1].systems) :
      LET s == loops[1].systems[i]
          elapsed == DtGameStepSeconds * loops[1].stepNumber
      IN s.cadenceSeconds >= DtGameStepSeconds =>
           /\ Fires(1, s.name) = elapsed \div s.cadenceSeconds
           /\ s.accumulated = elapsed % s.cadenceSeconds

\* After four ticks a system of cadence 150 has fired once and carries 90.
C2_Witness ==
  /\ pc = "idle"
  /\ loops[1].stepNumber = 4
  /\ \E i \in 1..Len(loops[1].systems) :
       /\ loops[1].systems[i].cadenceSeconds = 150
       /\ loops[1].systems[i].accumulated = 90
       /\ Fires(1, loops[1].systems[i].name) = 1

IsLogged(log, kind, entry) ==
  \E j \in 1..Len(log) :
    log[j].kind = kind /\ log[j].name = entry.name /\ log[j].fn = entry.handler

SystemsLogged(log) == {j \in 1..Len(log) : log[j].kind = "system"}

\* C8: in every tick no handler is invoked after a system, and when the
\* tick's first system is invoked every handler registered at that moment
\* has been invoked (and has returned or thrown).
C8_HandlersBeforeSystems ==
  [][/\ \A i, j \in 1..Len(tickLog') :
          i < j => ~(tickLog'[i].kind = "system" /\ tickLog'[j].kind = "handler")
     /\ (tickLog' # tickLog /\ pc' = "inSystem"
           /\ Cardinality(SystemsLogged(tickLog')) = 1)
          => \A i \in 1..Len(loops'[1].handlers) :
               IsLogged(tickLog', "handler", loops'[1].handlers[i])]_vars

\* A tick's first system is invoked after two handlers, one of which was
\* registered by the other during the tick.
C8_Witness ==
  /\ pc = "inSystem"
  /\ Len(tickLog) = 3
  /\ tickLog[1].kind = "handler" /\ tickLog[2].kind = "handler"
  /\ lastCall.op = "registerHandler" /\ lastCall.inTick /\ ~lastCall.threw
  /\ calls = 1

\* The entry of the restored accumulator table a that is still in the Map.
RestoredEntry(systems, a) ==
  /\ Has(systems, a.name)
  /\ systems[IndexOf(systems, a.name, 1)].cadenceSeconds = a.cadenceSeconds

\* The j-th tick after the restore is one at which a restored accumulator
\* acc0, grown by 60 s per tick and reduced by c per firing, reaches c.
DueFrom(acc0, c, j) ==
  (acc0 + DtGameStepSeconds * j) \div c
    > (acc0 + DtGameStepSeconds * (j - 1)) \div c

RestoredFiring ==
  saved # NoState =>
    \A i \in 1..Len(saved.accumulators) :
      LET a == saved.accumulators[i]
          ticks == Len(hist[1])
      IN RestoredEntry(loops[1].systems, a) =>
           /\ \A j \in 1..ticks :
                a.name \in FiredNames(hist[1][j])
                  <=> DueFrom(a.accumulated, a.cadenceSeconds, j)
           /\ pc = "idle" =>
                loops[1].systems[IndexOf(loops[1].systems, a.name, 1)].accumulated
                  = (a.accumulated + DtGameStepSeconds * ticks) % a.cadenceSeconds

\* C7: on a restored loop, registerSystem(name, cadence, fn) for a name of
\* the restored table only replaces the handler of the existing entry (its
\* place, accumulated value and cadenceSeconds stay, whatever the cadence
\* argument), and the entry fires at exactly the ticks at which the restored
\* accumulated value plus 60 s per tick reaches the restored cadence.
C7_RebindKeepsAccumulator ==
  [][/\ \A n \in SystemNames, c \in RegistryCadences, f \in Fns :
          (/\ lastCall'.op = "registerSystem"
           /\ ~registerSystemThrows(c)
           /\ saved # NoState
           /\ RegisterSystem(1, n, c, f)
           /\ \E i \in 1..Len(saved.accumulators) :
                /\ saved.accumulators[i].name = n
                /\ RestoredEntry(loops[1].systems, saved.accumulators[i]))
            => loops'[1].systems =
                 [loops[1].systems EXCEPT
                    ![IndexOf(loops[1].systems, n, 1)].handler = f]
     /\ RestoredFiring']_vars

\* The restored entry "atmo" (accumulated 60, cadence 150), bound again with
\* another cadence argument, stays silent in the first tick and fires its
\* new handler in the second.
C7_Witness ==
  /\ saved = RestoredState
  /\ Len(hist[1]) = 2
  /\ "atmo" \notin FiredNames(hist[1][1])
  /\ \E f \in Fns : [name |-> "atmo", fn |-> f] \in hist[1][2].fired
  /\ RestoredEntry(loops[1].systems, RestoredState.accumulators[2])

\* C9: a successful registerHandler puts its handler after all registered
\* handlers and a successful registerSystem puts its system after all
\* systems bound by earlier registerSystem calls, on fresh and on restored
\* loops; a tick invokes the systems in the order of the registry.
C9_RegistrationOrder ==
  [][/\ \A n \in HandlerNames, f \in Fns :
          (/\ lastCall'.op = "registerHandler"
           /\ ~registerHandlerThrows(loops[1], n)
           /\ RegisterHandler(1, n, f))
            => loops'[1].handlers =
                 Append(loops[1].handlers, [name |-> n, handler |-> f])
     /\ \A n \in SystemNames, c \in RegistryCadences, f \in Fns :
          (/\ lastCall'.op = "registerSystem"
           /\ ~registerSystemThrows(c)
           /\ RegisterSystem(1, n, c, f))
            => LET ss == loops'[1].systems
                   p == IndexOf(ss, n, 1)
               IN /\ ss[p].handler = f
                  /\ \A q \in (p + 1)..Len(ss) : ss[q].handler = NoopFn
     /\ (pc # "idle" /\ pc' = "idle" /\ calls = 0)
          => \A i, j \in SystemsLogged(tickLog') :
               i < j => IndexOf(loops'[1].systems, tickLog'[i].name, 1)
                          < IndexOf(loops'[1].systems, tickLog'[j].name, 1)]_vars

\* ---- SpecSingleton: the engine singleton.  Every loop is made by
\* startEngine or restoreAndStartEngine (from a state read back by the
\* caller, if there is one); the caller also starts and stops the handles
\* it was given.

InitSingleton ==
  \E s \in {NoState, RestoredState} : Started(<<>>, s)

NextSingleton ==
  \/ StartEngine
  \/ RestoreAndStartEngine
  \/ StopEngine
  \/ \E e \in Loops : pc = "idle" /\ Start(e)
  \/ \E e \in Loops : pc = "idle" /\ Stop(e)
  \/ \E t \in timers : TimerFires(t)
  \/ CallbackReturns

SpecSingleton == InitSingleton /\ [][NextSingleton]_vars

\* C1: at any time at most one loop is running, whatever startEngine,
\* restoreAndStartEngine, stopEngine and the start and stop of the returned
\* handles were called.
C1_AtMostOneRunning ==
  Cardinality({e \in Loops : loops[e].running}) <= 1

\* ---- SpecRestore: a fresh loop S (loop 1) with its systems registered is
\* run, stopped and serialized; a loop R (loop 2) is restored from that
\* state, systems are registered on it, and both loops are run on.

RestoreSetups ==
  {<<[name |-> "atmo", cadence |-> 90, fn |-> 1]>>,
   <<[name |-> "atmo", cadence |-> 150, fn |-> 1], [name |-> "7", cadence |-> 90, fn |-> 2]>>,
   <<[name |-> "7", cadence |-> 60, fn |-> 1], [name |-> "atmo", cadence |-> 150, fn |-> 2]>>}

InitRestore ==
  \E ss \in RestoreSetups :
    Started(<<Configured(createEngineLoop(NoState), <<>>, ss)>>, NoState)

NextRestore ==
  \/ \E e \in Loops : pc = "idle" /\ Start(e)
  \/ \E e \in Loops : pc = "idle" /\ Stop(e)
  \/ (pc = "idle" /\ Len(loops) = 1 /\ ~loops[1].running /\ Serialize(1))
  \/ RestoreEngineLoop
  \/ \E n \in SystemNames, c \in RegistryCadences, f \in Fns :
       /\ pc = "idle" /\ Len(loops) = 2
       /\ Has(loops[2].systems, n) =>
            loops[2].systems[IndexOf(loops[2].systems, n, 1)].handler = NoopFn
       /\ RegisterSystem(2, n, c, f)
  \/ \E t \in timers :
       /\ t.eng = 2 => Len(hist[2]) < MaxRegistryTicks
       /\ TimerFires(t)
  \/ CallbackReturns

SpecRestore == InitRestore /\ [][NextRestore]_vars

Names(systems) == {systems[i].name : i \in 1..Len(systems)}

\* R has the system names of S registered again, and none of its ticks
\* found a due system without its handler.
Reregistered ==
  /\ Len(loops) = 2
  /\ Names(loops[2].systems) = Names(loops[1].systems)
  /\ \A i \in 1..Len(loops[2].systems) : loops[2].systems[i].handler # NoopFn
  /\ \A k \in 1..Len(hist[2]) : \A x \in hist[2][k].fired : x.fn # NoopFn

\* C6: S was serialized after saved.stepNumber ticks; when R is restored
\* from that state with the same system names registered again, the k-th
\* tick of R has the stepNumber, the game time and the set of firing systems
\* of the k-th further tick of S, and at equal step numbers the two loops
\* have equal game times and accumulators.
C6_RestoreContinues ==
  Reregistered =>
    /\ \A k \in 1..Len(hist[2]) :
         (saved.stepNumber + k <= Len(hist[1])) =>
           LET r == hist[2][k]
               t == hist[1][saved.stepNumber + k]
           IN /\ r.stepNumber = t.stepNumber
              /\ r.totalMinutes = t.totalMinutes
              /\ FiredNames(r) = FiredNames(t)
    /\ (pc = "idle" /\ loops[1].stepNumber = loops[2].stepNumber) =>
         /\ loops[2].gameTime = loops[1].gameTime
         /\ \A i \in 1..Len(loops[1].systems) :
              LET a == loops[1].systems[i]
                  b == loops[2].systems[IndexOf(loops[2].systems, a.name, 1)]
              IN b.accumulated = a.accumulated /\ b.cadenceSeconds = a.cadenceSeconds

\* S was serialized with a part-filled accumulator; R and S have both made
\* two further ticks, in one of which a system fired.
C6_Witness ==
  /\ Reregistered
  /\ pc = "idle"
  /\ saved.stepNumber >= 1
  /\ \E i \in 1..Len(saved.accumulators) : saved.accumulators[i].accumulated > 0
  /\ Len(hist[2]) = 2
  /\ Len(hist[1]) = saved.stepNumber + 2
  /\ \E k \in 1..2 : hist[2][k].fired # {}

\* ------------------------------------------------ claims about the clock

\* Ticks of loop e that have begun.
TicksBegun(e) == Len(hist[e]) + (IF pc # "idle" /\ cur = e THEN 1 ELSE 0)

\* C11: every step leaves stepNumber and gameTime.totalMinutes alone or
\* adds exactly 1 to both, and after N ticks a fresh loop has stepNumber = N
\* and totalMinutes = N, a restored loop its restored values plus N; the
\* game time is the calendar time of that minute count.
C11_TickAdvance ==
  [][LET L == loops[1]
         L2 == loops'[1]
         N == TicksBegun(1)'
         step0 == IF saved = NoState THEN 0 ELSE saved.stepNumber
         minutes0 == IF saved = NoState THEN 0 ELSE saved.gameTime.totalMinutes
     IN /\ L2.stepNumber - L.stepNumber \in {0, 1}
        /\ L2.gameTime.totalMinutes - L.gameTime.totalMinutes
             = L2.stepNumber - L.stepNumber
        /\ L2.stepNumber = L.stepNumber + 1 <=> TicksBegun(1)' = TicksBegun(1) + 1
        /\ L2.stepNumber = step0 + N
        /\ L2.gameTime = createGameTime(minutes0 + N)]_vars

\* A restored loop (step 1, minute 1) after two ticks.
C11_Witness ==
  /\ saved = RestoredState
  /\ pc = "idle"
  /\ Len(hist[1]) = 2
  /\ loops[1].stepNumber = 3
  /\ loops[1].gameTime.totalMinutes = 3

\* ------------------------------------- claims about the engine singleton

\* C12: startEngine and restoreAndStartEngine called while the engine in the
\* singleton slot is running throw, create no loop, and leave every loop
\* (the running engine and its step counter with them), the pending timers
\* and the slot as they were.
C12_StartWhileEngineRunning ==
  [][(/\ lastCall'.op \in {"startEngine", "restoreAndStartEngine"}
      /\ isEngineRunning(loops, activeEngine)
      /\ StartEngine \/ RestoreAndStartEngine)
       => /\ lastCall'.threw
          /\ UNCHANGED <<loops, timers, activeEngine>>
          /\ isEngineRunning(loops', activeEngine')]_vars

\* restoreAndStartEngine was refused while the engine in the slot, which
\* has ticked, was running.
C12_Witness ==
  /\ lastCall.op = "restoreAndStartEngine"
  /\ lastCall.threw
  /\ isEngineRunning(loops, activeEngine)
  /\ loops[activeEngine].stepNumber >= 1
  /\ Len(loops) = 1

\* C13: stopEngine on a filled slot stops the engine in it (not running, no
\* timer pending) and empties the slot, so getActiveEngine returns null and
\* isEngineRunning is false; on an empty slot it changes nothing; and a
\* startEngine that follows it succeeds with a new running engine at step 0
\* in the slot.
C13_StopEngine ==
  [][/\ (lastCall'.op = "stopEngine" /\ StopEngine)
          => /\ getActiveEngine(activeEngine') = NoEngine
             /\ ~isEngineRunning(loops', activeEngine')
             /\ IF activeEngine # NoEngine
                THEN /\ ~loops'[activeEngine].running
                     /\ PendingOf(activeEngine)' = {}
                     /\ \A e \in Loops \ {activeEngine} : loops'[e] = loops[e]
                ELSE UNCHANGED <<loops, timers>>
     /\ (lastCall.op = "stopEngine" /\ lastCall'.op = "startEngine" /\ StartEngine)
          => /\ ~lastCall'.threw
             /\ Len(loops') = Len(loops) + 1
             /\ getActiveEngine(activeEngine') = Len(loops')
             /\ loops'[Len(loops')].stepNumber = 0
             /\ isEngineRunning(loops', activeEngine')]_vars

\* A second engine at step 0 fills the slot after the first, which had
\* ticked, was stopped.
C13_Witness ==
  /\ lastCall.op = "startEngine" /\ ~lastCall.threw
  /\ Len(loops) = 2
  /\ activeEngine = 2
  /\ loops[2].stepNumber = 0 /\ loops[2].running
  /\ loops[1].stepNumber >= 1 /\ ~loops[1].running

HandlersLogged(log) ==
  SelectSeq(log, LAMBDA x : x.kind = "handler")

\* C14: registerHandler with a registered name throws and changes nothing
\* (the registry, the closures handed out and a tick in progress are as
\* before), and a tick in which no call is made invokes the registered
\* handlers, each once, in the order of the registry.
C14_DuplicateHandler ==
  [][/\ \A n \in HandlerNames, f \in Fns :
          (/\ lastCall'.op = "registerHandler"
           /\ Has(loops[1].handlers, n)
           /\ RegisterHandler(1, n, f))
            => /\ lastCall'.threw
               /\ UNCHANGED <<loops, timers, unreg, pc, hIdx, sIdx, tickLog>>
     /\ (pc # "idle" /\ pc' = "idle" /\ calls = 0)
          => LET hl == HandlersLogged(tickLog')
             IN /\ Len(hl) = Len(loops'[1].handlers)
                /\ \A i \in 1..Len(hl) :
                     /\ hl[i].name = loops'[1].handlers[i].name
                     /\ hl[i].fn = loops'[1].handlers[i].handler]_vars

\* The latest call, made before the tick in progress, was a refused
\* registerHandler; the tick is invoking the second of two handlers.
C14_Witness ==
  /\ pc = "inHandler"
  /\ lastCall = [op |-> "registerHandler", threw |-> TRUE, inTick |-> FALSE]
  /\ Len(tickLog) = 2
  /\ Len(loops[1].handlers) = 2

\* ============================================================ tile cache
\* createLandChunkManager (land/landChunkManager.ts): a Map from key to LRU
\* node and a doubly-linked list of the nodes, head the most recently used.
\* A manager is [chunkCells, worldChunksX, worldChunksY, maxResidentChunks,
\* generator, cache, nodes, head, tail, totalAccesses, cacheHits,
\* cacheMisses, evictions, created]: cache is the Map in insertion order,
\* <<[key, node], ...>>; nodes is the heap of LRU nodes, node id |->
\* [key, chunk, prev, next]; created counts the chunks allocated, which
\* gives each chunk object its identity.

\* Managers created in one behaviour.
MaxManagers == 2
\* Chunks a manager allocates in one behaviour.
MaxChunks == 4
\* Largest totalAccesses a manager is run to.
MaxAccesses == 4
\* Largest maxResidentChunks of a manager.
MaxCapacity == 2
\* Chunk coordinates passed by callers: -MaxCoord..MaxCoord.
MaxCoord == 1

Coords == (0 - MaxCoord)..MaxCoord

\* The JavaScript remainder: it has the sign of the dividend.
JsRem(a, n) == IF a >= 0 THEN a % n ELSE 0 - ((0 - a) % n)

\* A wrap that is the remainder alone.
wrapCxRemainder(M, cx) == JsRem(cx, M.worldChunksX)

wrapCx(M, cx) == JsRem(JsRem(cx, M.worldChunksX) + M.worldChunksX, M.worldChunksX)

wrapCy(M, cy) == JsRem(JsRem(cy, M.worldChunksY) + M.worldChunksY, M.worldChunksY)

chunkKey(cx, cy) == ToString(cx) \o "," \o ToString(cy)

\* cache.get(key): the node id, NoNode for undefined.
CacheGet(cache, key) ==
  IF \E i \in 1..Len(cache) : cache[i].key = key
  THEN cache[CHOOSE i \in 1..Len(cache) : cache[i].key = key].node
  ELSE NoNode

CacheHas(cache, key) == \E i \in 1..Len(cache) : cache[i].key = key

CacheDelete(cache, key) == SelectSeq(cache, LAMBDA e : e.key # key)

\* cache.set(key, node): a present key keeps its place in the Map.
CacheSet(cache, key, n) ==
  IF CacheHas(cache, key)
  THEN [i \in 1..Len(cache) |->
          IF cache[i].key = key THEN [key |-> key, node |-> n] ELSE cache[i]]
  ELSE Append(cache, [key |-> key, node |-> n])

createLandChunkManagerThrows(config) ==
  \/ config.worldChunksX <= 0
  \/ config.worldChunksY <= 0
  \/ config.maxResidentChunks <= 0

createLandChunkManager(config, generator) ==
  [chunkCells |-> config.chunkCells,
   worldChunksX |-> config.worldChunksX,
   worldChunksY |-> config.worldChunksY,
   maxResidentChunks |-> config.maxResidentChunks,
   generator |-> generator,
   cache |-> <<>>,
   nodes |-> <<>>,
   head |-> NoNode,
   tail |-> NoNode,
   totalAccesses |-> 0,
   cacheHits |-> 0,
   cacheMisses |-> 0,
   evictions |-> 0,
   created |-> 0]

removeNode(M, n) ==
  LET node == M.nodes[n]
      M1 == IF node.prev # NoNode
            THEN [M EXCEPT !.nodes[node.prev].next = node.next]
            ELSE [M EXCEPT !.head = node.next]
      M2 == IF node.next # NoNode
            THEN [M1 EXCEPT !.nodes[node.next].prev = node.prev]
            ELSE [M1 EXCEPT !.tail = node.prev]
  IN [M2 EXCEPT !.nodes[n].prev = NoNode, !.nodes[n].next = NoNode]

\* An insertAtHead that links the node and leaves head where it was.
insertAtHeadKeepHead(M, n) ==
  LET M1 == [M EXCEPT !.nodes[n].prev = NoNode, !.nodes[n].next = M.head]
      M2 == IF M.head # NoNode THEN [M1 EXCEPT !.nodes[M.head].prev = n] ELSE M1
  IN IF M2.tail = NoNode THEN [M2 EXCEPT !.tail = n] ELSE M2

insertAtHead(M, n) ==
  LET M1 == [M EXCEPT !.nodes[n].prev = NoNode, !.nodes[n].next = M.head]
      M2 == IF M.head # NoNode THEN [M1 EXCEPT !.nodes[M.head].prev = n] ELSE M1
      M3 == [M2 EXCEPT !.head = n]
  IN IF M3.tail = NoNode THEN [M3 EXCEPT !.tail = n] ELSE M3

\* A moveToHead that leaves the list as it is.
moveToHeadNothing(M, n) == M

moveToHead(M, n) == IF n = M.head THEN M ELSE insertAtHead(removeNode(M, n), n)

\* An evictLRU that unlinks the tail and leaves its key in the Map.
evictLRUKeepMap(M) ==
  IF M.tail = NoNode THEN M
  ELSE [removeNode(M, M.tail) EXCEPT !.evictions = @ + 1]

\* An evictLRU that evicts nothing.
evictLRUNothing(M) == M

\* The evicted node is referenced by nothing afterwards: it leaves the heap.
evictLRU(M) ==
  IF M.tail = NoNode THEN M
  ELSE LET evicted == M.tail
           M1 == removeNode(M, evicted)
       IN [M1 EXCEPT !.cache = CacheDelete(@, M.nodes[evicted].key),
                     !.evictions = @ + 1,
                     !.nodes = [i \in DOMAIN M1.nodes \ {evicted} |-> M1.nodes[i]]]

\* createLandChunk: a new zero-initialized chunk object.
createLandChunk(id, cx, cy, chunkCells) ==
  [id |-> id, cx |-> cx, cy |-> cy, chunkCells |-> chunkCells, terrain |-> "zero",
   waterDepthM |-> 0, runoffFlux |-> 0]

\* initializeOceanWater: the water depth the generator gives the cells of
\* chunk (cx, cy), a function of the coordinates and the metadata: here the
\* chunks of column 0 are ocean, one unit deep.
OceanDepth(cx, cy) == IF cx = 0 THEN 1 ELSE 0

\* The chunk generator of worldInit: it fills the terrain of the chunk and
\* sets the water depth of every cell.
chunkGenerator(chunk) ==
  [chunk EXCEPT !.terrain = "generated", !.waterDepthM = OceanDepth(chunk.cx, chunk.cy)]

\* getChunk: [M, chunk], the manager afterwards and the chunk returned.
getChunk(M, cx, cy) ==
  LET wrappedCx == wrapCx(M, cx)
      wrappedCy == wrapCy(M, cy)
      key == chunkKey(wrappedCx, wrappedCy)
      M0 == [M EXCEPT !.totalAccesses = @ + 1]
      existing == CacheGet(M.cache, key)
  IN IF existing # NoNode
     THEN [M |-> moveToHead([M0 EXCEPT !.cacheHits = @ + 1], existing),
           chunk |-> M.nodes[existing].chunk]
     ELSE LET M1 == [M0 EXCEPT !.cacheMisses = @ + 1]
              M2 == IF Len(M1.cache) >= M1.maxResidentChunks THEN evictLRU(M1) ELSE M1
              n == M2.created + 1
              fresh == createLandChunk(n, wrappedCx, wrappedCy, M.chunkCells)
              chunk == IF M.generator THEN chunkGenerator(fresh) ELSE fresh
              node == [key |-> key, chunk |-> chunk, prev |-> NoNode, next |-> NoNode]
              M3 == [M2 EXCEPT !.created = n,
                               !.nodes = [i \in DOMAIN M2.nodes \cup {n} |->
                                            IF i = n THEN node ELSE M2.nodes[i]],
                               !.cache = CacheSet(@, key, n)]
          IN [M |-> insertAtHead(M3, n), chunk |-> chunk]

hasChunk(M, cx, cy) == CacheHas(M.cache, chunkKey(wrapCx(M, cx), wrapCy(M, cy)))

\* A hasChunk that moves the tile it finds to the head of the LRU list.
hasChunkTouching(M, cx, cy) ==
  LET key == chunkKey(wrapCx(M, cx), wrapCy(M, cy))
  IN IF CacheHas(M.cache, key)
     THEN [M |-> moveToHead(M, CacheGet(M.cache, key)), value |-> TRUE]
     ELSE [M |-> M, value |-> FALSE]

\* hasChunk as a call: [M, value], the manager afterwards and the value
\* returned. It reads the Map and writes nothing.
hasChunkCall(M, cx, cy) == [M |-> M, value |-> hasChunk(M, cx, cy)]

\* forEachResident: the chunks passed to the callback, in the Map's order.
forEachResident(M) == [i \in 1..Len(M.cache) |-> M.nodes[M.cache[i].node].chunk]

residentCount(M) == Len(M.cache)

getStats(M) ==
  [residentCount |-> Len(M.cache),
   totalAccesses |-> M.totalAccesses,
   cacheHits |-> M.cacheHits,
   cacheMisses |-> M.cacheMisses,
   evictions |-> M.evictions]

resetStats(M) ==
  [M EXCEPT !.totalAccesses = 0, !.cacheHits = 0, !.cacheMisses = 0, !.evictions = 0]

\* A clear that empties the Map and leaves head and tail.
clearKeepList(M) == [M EXCEPT !.cache = <<>>]

\* clear: the nodes are referenced by nothing afterwards.
clear(M) == [M EXCEPT !.cache = <<>>, !.head = NoNode, !.tail = NoNode, !.nodes = <<>>]

\* ------------------------------------------------------- world singleton

\* Math.round(a / b) for a >= 0 and b > 0.
MathRound(a, b) == (2 * a + b) \div (2 * b)

\* initializeWorld: the metadata is computed from the configuration alone.
initializeWorld(worldConfig) ==
  [chunkGenerator |-> TRUE, metadata |-> [seed |-> worldConfig.seed]]

\* The configuration initWorld passes to createLandChunkManager.
ManagerConfig(worldConfig, maxResidentChunks) ==
  [chunkCells |-> worldConfig.chunkCells,
   worldChunksX |-> MathRound(worldConfig.worldWidthM,
                              worldConfig.chunkCells * worldConfig.landCellSizeM),
   worldChunksY |-> MathRound(worldConfig.worldHeightM,
                              worldConfig.chunkCells * worldConfig.landCellSizeM),
   maxResidentChunks |-> maxResidentChunks]

initWorldThrows(ws, worldConfig, maxResidentChunks) ==
  \/ ws # NoWorld
  \/ createLandChunkManagerThrows(ManagerConfig(worldConfig, maxResidentChunks))

\* The message of the error initWorld throws on a slot that is set.
AlreadyInitialized == "World is already initialized. Restart the server to re-initialize."

\* The error initWorld throws: its own, the chunk manager's, or "none".
initWorldError(ws, worldConfig, maxResidentChunks) ==
  LET config == ManagerConfig(worldConfig, maxResidentChunks)
  IN IF ws # NoWorld THEN AlreadyInitialized
     ELSE IF config.worldChunksX <= 0 \/ config.worldChunksY <= 0
          THEN "worldChunksX/Y must be positive"
     ELSE IF config.maxResidentChunks <= 0
          THEN "maxResidentChunks must be positive"
     ELSE "none"

\* An initWorld that does not look at the slot.
initWorldOverwrite(ms, ws, worldConfig, maxResidentChunks) ==
  IF createLandChunkManagerThrows(ManagerConfig(worldConfig, maxResidentChunks))
  THEN [managers |-> ms, worldState |-> ws]
  ELSE [managers |-> Append(ms, createLandChunkManager(
                                  ManagerConfig(worldConfig, maxResidentChunks), TRUE)),
        worldState |-> [chunkManager |-> Len(ms) + 1,
                        metadata |-> initializeWorld(worldConfig).metadata]]

\* initWorld on the managers ms and the slot ws: [managers, worldState].
initWorld(ms, ws, worldConfig, maxResidentChunks) ==
  IF initWorldThrows(ws, worldConfig, maxResidentChunks)
  THEN [managers |-> ms, worldState |-> ws]
  ELSE LET init == initializeWorld(worldConfig)
           chunkManager == createLandChunkManager(
                             ManagerConfig(worldConfig, maxResidentChunks),
                             init.chunkGenerator)
       IN [managers |-> Append(ms, chunkManager),
           worldState |-> [chunkManager |-> Len(ms) + 1, metadata |-> init.metadata]]

getWorld(ws) == ws

resetWorldSingleton(ms, ws) ==
  IF ws # NoWorld
  THEN [managers |-> [ms EXCEPT ![ws.chunkManager] = clear(@)], worldState |-> NoWorld]
  ELSE [managers |-> ms, worldState |-> ws]

\* -------------------------------------------- cache and world actions

Managers == 1..Len(managers)

\* The key (cx, cy) stands for: its coordinates modulo the world size.
TorusKey(M, cx, cy) == <<cx % M.worldChunksX, cy % M.worldChunksY>>

Touch(keys, k) == <<k>> \o SelectSeq(keys, LAMBDA x : x # k)

\* getChunk(cx, cy) on manager m; withArgs keeps the arguments of the call
\* with its result.
GetChunkResult(m, cx, cy, withArgs) ==
  /\ managers[m].totalAccesses < MaxAccesses
  /\ hasChunk(managers[m], cx, cy) \/ managers[m].created < MaxChunks
  /\ LET r == getChunk(managers[m], cx, cy)
     IN /\ managers' = [managers EXCEPT ![m] = r.M]
        /\ cret' = IF withArgs
                   THEN [op |-> "getChunk", chunk |-> r.chunk, cx |-> cx, cy |-> cy]
                   ELSE [op |-> "getChunk", chunk |-> r.chunk]
  /\ recent' = [recent EXCEPT ![m] = Touch(@, TorusKey(managers[m], cx, cy))]
  /\ UNCHANGED worldState
  /\ UNCHANGED <<vars, xvars>>

GetChunkCall(m, cx, cy, withArgs) ==
  GetChunkResult(m, cx, cy, withArgs) /\ UNCHANGED held

GetChunk(m, cx, cy) == GetChunkCall(m, cx, cy, FALSE)

\* getChunk(cx, cy) by a caller that keeps the chunk object it is handed.
GetChunkHeld(m, cx, cy) ==
  /\ GetChunkResult(m, cx, cy, FALSE)
  /\ LET chunk == getChunk(managers[m], cx, cy).chunk
     IN held' = IF chunk.id > Len(held) THEN Append(held, chunk) ELSE held

\* The caller writes water depth w and runoff f into the chunk object id:
\* chunk.data.waterDepthM[i] = w, chunk.data.runoffFlux[i] = f. A resident
\* chunk is the same object in the cache.
WriteChunk(m, id, w, f) ==
  /\ held' = [held EXCEPT ![id].waterDepthM = w, ![id].runoffFlux = f]
  /\ managers' = IF id \in DOMAIN managers[m].nodes
                 THEN [managers EXCEPT ![m].nodes[id].chunk.waterDepthM = w,
                                       ![m].nodes[id].chunk.runoffFlux = f]
                 ELSE managers
  /\ cret' = [op |-> "write", id |-> id]
  /\ UNCHANGED <<worldState, recent>>
  /\ UNCHANGED <<vars, xvars>>

\* A call that returns value and leaves manager m as M.
CacheCall(m, op, M, value) ==
  /\ managers' = [managers EXCEPT ![m] = M]
  /\ cret' = [op |-> op, value |-> value]
  /\ UNCHANGED <<worldState, recent, held>>
  /\ UNCHANGED <<vars, xvars>>

HasChunk(m, cx, cy) ==
  LET r == hasChunkCall(managers[m], cx, cy)
  IN CacheCall(m, "hasChunk", r.M, r.value)

ForEachResident(m) ==
  CacheCall(m, "forEachResident", managers[m], forEachResident(managers[m]))

GetStats(m) == CacheCall(m, "getStats", managers[m], getStats(managers[m]))

ResetStats(m) == CacheCall(m, "resetStats", resetStats(managers[m]), TRUE)

Clear(m) == CacheCall(m, "clear", clear(managers[m]), TRUE)

InitWorld(worldConfig, maxResidentChunks) ==
  /\ initWorldThrows(worldState, worldConfig, maxResidentChunks)
       \/ Len(managers) < MaxManagers
  /\ LET r == initWorld(managers, worldState, worldConfig, maxResidentChunks)
     IN /\ managers' = r.managers
        /\ worldState' = r.worldState
        /\ recent' = IF Len(r.managers) > Len(managers) THEN Append(recent, <<>>)
                     ELSE recent
  /\ cret' = [op |-> "initWorld",
              threw |-> initWorldThrows(worldState, worldConfig, maxResidentChunks),
              error |-> initWorldError(worldState, worldConfig, maxResidentChunks)]
  /\ UNCHANGED held
  /\ UNCHANGED <<vars, xvars>>

GetWorld ==
  /\ cret' = [op |-> "getWorld", value |-> getWorld(worldState)]
  /\ UNCHANGED <<managers, worldState, recent, held>>
  /\ UNCHANGED <<vars, xvars>>

ResetWorldSingleton ==
  /\ LET r == resetWorldSingleton(managers, worldState)
     IN managers' = r.managers /\ worldState' = r.worldState
  /\ cret' = [op |-> "_resetWorldSingleton", value |-> TRUE]
  /\ UNCHANGED <<recent, held>>
  /\ UNCHANGED <<vars, xvars>>

\* ---- SpecCache: one manager, its six operations called in any order
\* with coordinates inside and outside the world.

CacheConfigs ==
  {[chunkCells |-> 2, worldChunksX |-> 2, worldChunksY |-> 2, maxResidentChunks |-> c] :
     c \in 1..MaxCapacity}

InitCache ==
  /\ EngineStarted(<<>>, NoState)
  /\ \E config \in CacheConfigs, generator \in BOOLEAN :
       managers = <<createLandChunkManager(config, generator)>>
  /\ worldState = NoWorld
  /\ recent = <<<<>>>>
  /\ held = <<>>
  /\ cret = [op |-> "none"]
  /\ Elsewhere

NextCache ==
  \/ \E cx \in Coords, cy \in Coords : GetChunk(1, cx, cy)
  \/ \E cx \in Coords, cy \in Coords : HasChunk(1, cx, cy)
  \/ ForEachResident(1)
  \/ GetStats(1)
  \/ ResetStats(1)
  \/ Clear(1)

allvars == <<vars, cvars, xvars>>

SpecCache == InitCache /\ [][NextCache]_allvars

\* ---- SpecEvict: a caller keeps the chunks getChunk hands out and writes
\* water and runoff into them, resident or evicted.

WrittenWater == 5

WrittenRunoff == 3

InitEvict ==
  /\ EngineStarted(<<>>, NoState)
  /\ \E config \in CacheConfigs, generator \in BOOLEAN :
       managers = <<createLandChunkManager(config, generator)>>
  /\ worldState = NoWorld
  /\ recent = <<<<>>>>
  /\ held = <<>>
  /\ cret = [op |-> "none"]
  /\ Elsewhere

NextEvict ==
  \/ \E cx \in Coords, cy \in Coords : GetChunkHeld(1, cx, cy)
  \/ \E cx \in Coords, cy \in Coords : HasChunk(1, cx, cy)
  \/ \E id \in 1..Len(held) : WriteChunk(1, id, WrittenWater, WrittenRunoff)

SpecEvict == InitEvict /\ [][NextEvict]_allvars

\* ---- SpecTorus: getChunk with coordinates inside and outside the world, on
\* a world of 2 by 3 chunks.

MaxWrap == 3

TorusCoords == (0 - MaxWrap)..MaxWrap

TorusConfigs ==
  {[chunkCells |-> 2, worldChunksX |-> 2, worldChunksY |-> 3, maxResidentChunks |-> c] :
     c \in 1..MaxCapacity}

InitTorus ==
  /\ EngineStarted(<<>>, NoState)
  /\ \E config \in TorusConfigs :
       managers = <<createLandChunkManager(config, TRUE)>>
  /\ worldState = NoWorld
  /\ recent = <<<<>>>>
  /\ held = <<>>
  /\ cret = [op |-> "none"]
  /\ Elsewhere

NextTorus == \E cx \in TorusCoords, cy \in TorusCoords : GetChunkCall(1, cx, cy, TRUE)

SpecTorus == InitTorus /\ [][NextTorus]_allvars

\* ---- SpecWorld: the world singleton is initialized, read, used and reset.

WorldConfigs ==
  {[seed |-> sd, worldWidthM |-> w, worldHeightM |-> 4, worldCellsX |-> w,
    worldCellsY |-> 4, landCellSizeM |-> 1, chunkCells |-> 2] :
     sd \in {42, 99}, w \in {0, 5}}

InitWorldSpec == EngineStarted(<<>>, NoState) /\ WorldAbsent

NextWorld ==
  \/ \E worldConfig \in WorldConfigs, c \in 1..MaxCapacity : InitWorld(worldConfig, c)
  \/ GetWorld
  \/ ResetWorldSingleton
  \/ \E cx \in {0, 1} :
       worldState # NoWorld /\ GetChunk(worldState.chunkManager, cx, 0)

SpecWorld == InitWorldSpec /\ [][NextWorld]_allvars

\* ------------------------------------- claims about the world singleton

\* C15: initWorld called while a world is initialized throws the error of
\* an initialized world and leaves the
\* world state, its tile cache and its metadata as they were; after
\* _resetWorldSingleton getWorld returns null, and an initWorld that
\* follows it (with a configuration the chunk manager accepts) succeeds:
\* the slot holds a new world with an empty cache.
C15_InitWorldTwice ==
  [][/\ \A worldConfig \in WorldConfigs, c \in 1..MaxCapacity :
          (cret'.op = "initWorld" /\ InitWorld(worldConfig, c))
            => /\ worldState # NoWorld
                    => /\ cret'.threw
                       /\ cret'.error = AlreadyInitialized
                       /\ UNCHANGED <<managers, worldState>>
               /\ (/\ cret.op = "_resetWorldSingleton"
                   /\ ~createLandChunkManagerThrows(ManagerConfig(worldConfig, c)))
                    => /\ ~cret'.threw
                       /\ cret'.error = "none"
                       /\ getWorld(worldState') # NoWorld
                       /\ worldState'.chunkManager = Len(managers')
                       /\ Len(managers') = Len(managers) + 1
                       /\ worldState'.metadata = initializeWorld(worldConfig).metadata
                       /\ residentCount(managers'[worldState'.chunkManager]) = 0
     /\ (cret'.op = "_resetWorldSingleton" /\ ResetWorldSingleton)
          => getWorld(worldState') = NoWorld]_allvars

\* A second world, initialized after the first was reset, holds a tile when
\* a further initWorld is refused.
C15_Witness ==
  /\ cret = [op |-> "initWorld", threw |-> TRUE, error |-> AlreadyInitialized]
  /\ Len(managers) = 2
  /\ worldState # NoWorld
  /\ worldState.chunkManager = 2
  /\ residentCount(managers[2]) >= 1

\* ----------------------------------------- claims about the tile cache

\* C16: after every operation of the cache the number of resident tiles
\* is at most maxResidentChunks.
C16_ResidentBound ==
  \A m \in Managers : residentCount(managers[m]) <= managers[m].maxResidentChunks

\* A full cache of two tiles that has evicted a tile, after each kind of
\* access.
C16_Witness ==
  /\ managers[1].maxResidentChunks = 2
  /\ residentCount(managers[1]) = 2
  /\ managers[1].evictions >= 1
  /\ managers[1].cacheHits >= 1
  /\ cret.op = "getChunk"

\* The keys of the resident tiles of manager M.
ResidentKeys(M) == {M.cache[i].key : i \in 1..Len(M.cache)}

\* The step is a getChunk on manager m.
GetChunkStep(m) ==
  /\ cret'.op = "getChunk"
  /\ managers'[m].totalAccesses = managers[m].totalAccesses + 1

\* The key the getChunk of this step asked for.
AccessedKey(m) == chunkKey(Head(recent'[m])[1], Head(recent'[m])[2])

\* The resident tile of manager m whose latest getChunk is the oldest.
LeastRecentKey(m) ==
  LET r == SelectSeq(recent[m],
                     LAMBDA k : chunkKey(k[1], k[2]) \in ResidentKeys(managers[m]))
  IN chunkKey(r[Len(r)][1], r[Len(r)][2])

\* C17: a getChunk that misses while the cache holds maxResidentChunks
\* tiles evicts exactly one tile, the resident tile whose latest getChunk
\* is the oldest; a getChunk that hits, or misses below capacity, evicts
\* nothing.
C17_EvictLeastRecent ==
  [][GetChunkStep(1) =>
       LET M == managers[1]
           M2 == managers'[1]
       IN IF /\ AccessedKey(1) \notin ResidentKeys(M)
             /\ residentCount(M) >= M.maxResidentChunks
          THEN /\ ResidentKeys(M) \ ResidentKeys(M2) = {LeastRecentKey(1)}
               /\ ResidentKeys(M2) \ ResidentKeys(M) = {AccessedKey(1)}
               /\ M2.evictions = M.evictions + 1
          ELSE /\ ResidentKeys(M) \subseteq ResidentKeys(M2)
               /\ M2.evictions = M.evictions]_allvars

\* The first tile was accessed again before the third arrived: the second
\* tile was evicted, and the first and the third are resident.
C17_Witness ==
  /\ managers[1].maxResidentChunks = 2
  /\ managers[1].evictions = 1
  /\ DOMAIN managers[1].nodes = {1, 3}
  /\ cret.op = "getChunk"

\* The keys of the LRU list of M from node n on, following next, for at most
\* fuel nodes.
RECURSIVE ListFrom(_, _, _)
ListFrom(M, n, fuel) ==
  IF n = NoNode \/ fuel = 0 \/ n \notin DOMAIN M.nodes THEN <<>>
  ELSE <<M.nodes[n].key>> \o ListFrom(M, M.nodes[n].next, fuel - 1)

\* The LRU list of M, head to tail.
ListKeys(M) == ListFrom(M, M.head, MaxChunks + 1)

\* The resident keys of M among the accessed keys, the latest access first.
RecencyKeys(M, keys) ==
  LET r == SelectSeq(keys, LAMBDA k : chunkKey(k[1], k[2]) \in ResidentKeys(M))
  IN [i \in 1..Len(r) |-> chunkKey(r[i][1], r[i][2])]

\* C18: after each getChunk the key asked for is at the head of the LRU
\* list, and the list read from head to tail is the resident keys in the
\* order of their latest getChunk, the latest first.
C18_ListIsRecency ==
  [][GetChunkStep(1) =>
       LET M2 == managers'[1]
       IN /\ M2.head # NoNode
          /\ M2.nodes[M2.head].key = AccessedKey(1)
          /\ ListKeys(M2) = RecencyKeys(M2, recent'[1])
          /\ Len(ListKeys(M2)) = residentCount(M2)]_allvars

\* A hit on the tail of a full list: the tile inserted first is at the head
\* again, before the tile inserted second.
C18_Witness ==
  /\ residentCount(managers[1]) = 2
  /\ managers[1].head = 1
  /\ managers[1].tail = 2
  /\ managers[1].cacheHits = 1
  /\ cret.op = "getChunk"
  /\ cret.chunk.id = 1

\* The chunk coordinates inside the world of manager M.
WorldKeys(M) ==
  {chunkKey(x, y) : x \in 0..(M.worldChunksX - 1), y \in 0..(M.worldChunksY - 1)}

\* C19: getChunk(cx + k * worldChunksX, cy + j * worldChunksY) returns the
\* tile getChunk(cx, cy) returns, for negative and positive cx, cy, k and j:
\* from the same cache both calls have the same result, the tile returned
\* is the tile of (cx mod worldChunksX, cy mod worldChunksY), and a call
\* that follows a call for the same coordinates modulo the world size
\* returns the same tile object; every resident key is "x,y" with
\* 0 <= x < worldChunksX and 0 <= y < worldChunksY.
C19_TorusWrap ==
  [][GetChunkStep(1) =>
       LET M == managers[1]
           M2 == managers'[1]
           cx == cret'.cx
           cy == cret'.cy
       IN /\ \A k \in {0 - 1, 0, 1}, j \in {0 - 1, 0, 1} :
               getChunk(M, cx + k * M.worldChunksX, cy + j * M.worldChunksY)
                 = [M |-> M2, chunk |-> cret'.chunk]
          /\ cret'.chunk.cx = cx % M.worldChunksX
          /\ cret'.chunk.cy = cy % M.worldChunksY
          /\ ResidentKeys(M2) \subseteq WorldKeys(M2)
          /\ \A n \in DOMAIN M2.nodes :
               M2.nodes[n].key = chunkKey(M2.nodes[n].chunk.cx, M2.nodes[n].chunk.cy)
          /\ (/\ cret.op = "getChunk"
              /\ cret.cx % M.worldChunksX = cx % M.worldChunksX
              /\ cret.cy % M.worldChunksY = cy % M.worldChunksY)
               => /\ cret'.chunk = cret.chunk
                  /\ M2.cacheHits = M.cacheHits + 1]_allvars

\* getChunk(-3, 3) hit the tile of (1, 0), the first tile created.
C19_Witness ==
  /\ cret.op = "getChunk"
  /\ cret.cx = 0 - 3
  /\ cret.cy = 3
  /\ cret.chunk.id = 1
  /\ cret.chunk.cx = 1
  /\ cret.chunk.cy = 0
  /\ managers[1].cacheHits = 1
  /\ managers[1].totalAccesses = 2

\* C20: hasChunk, forEachResident and getStats change neither the set of
\* resident tiles nor the order of the LRU list: the tile the next
\* eviction removes is the same before and after.
C20_ObserversKeepOrder ==
  [][cret'.op \in {"hasChunk", "forEachResident", "getStats"} =>
       LET M == managers[1]
           M2 == managers'[1]
       IN /\ ResidentKeys(M2) = ResidentKeys(M)
          /\ M2.cache = M.cache
          /\ ListKeys(M2) = ListKeys(M)
          /\ M2.head = M.head
          /\ M2.tail = M.tail
          /\ evictLRU(M2).cache = evictLRU(M).cache
          /\ recent' = recent]_allvars

\* hasChunk found a tile in a full cache of two tiles whose LRU order is
\* not the order of insertion.
C20_Witness ==
  /\ cret = [op |-> "hasChunk", value |-> TRUE]
  /\ residentCount(managers[1]) = 2
  /\ managers[1].head = 1
  /\ managers[1].tail = 2

\* The keys of the LRU list of M from node n back, following prev, for at
\* most fuel nodes.
RECURSIVE ListBack(_, _, _)
ListBack(M, n, fuel) ==
  IF n = NoNode \/ fuel = 0 \/ n \notin DOMAIN M.nodes THEN <<>>
  ELSE <<M.nodes[n].key>> \o ListBack(M, M.nodes[n].prev, fuel - 1)

\* The keys of the Map of M in its order.
MapKeys(M) == [i \in 1..Len(M.cache) |-> M.cache[i].key]

\* The sequence has no element twice.
NoRepeat(seq) == \A i, j \in 1..Len(seq) : seq[i] = seq[j] => i = j

\* The Map and the LRU list of M hold the same keys, each once, and head
\* and tail are null exactly when the Map is empty.
MapMatchesList(M) ==
  LET list == ListFrom(M, M.head, MaxChunks + 1)
      back == ListBack(M, M.tail, MaxChunks + 1)
  IN /\ NoRepeat(MapKeys(M))
     /\ NoRepeat(list)
     /\ {list[i] : i \in 1..Len(list)} = ResidentKeys(M)
     /\ Len(list) = Len(M.cache)
     /\ back = [i \in 1..Len(list) |-> list[Len(list) + 1 - i]]
     /\ \A i \in 1..Len(M.cache) :
          /\ M.cache[i].node \in DOMAIN M.nodes
          /\ M.nodes[M.cache[i].node].key = M.cache[i].key
     /\ (M.head = NoNode) <=> (Len(M.cache) = 0)
     /\ (M.tail = NoNode) <=> (Len(M.cache) = 0)

\* C21: at all times the Map and the LRU list hold exactly the same keys,
\* each exactly once, and head and tail are both null exactly when the
\* cache is empty; so it is after clear and after evictLRU on a cache of
\* one tile.
C21_MapMatchesList ==
  \A m \in Managers :
    /\ MapMatchesList(managers[m])
    /\ MapMatchesList(clear(managers[m]))
    /\ residentCount(managers[m]) >= 1 => MapMatchesList(evictLRU(managers[m]))

\* A cache that held two tiles, evicted one and was cleared.
C21_Witness ==
  /\ cret.op = "clear"
  /\ managers[1].created >= 3
  /\ managers[1].evictions >= 1
  /\ residentCount(managers[1]) = 0
  /\ managers[1].head = NoNode

\* The keys getChunk was called with on manager m that the LRU policy has
\* evicted since: all but the maxResidentChunks latest (no clear is called).
EvictedKeys(m) ==
  {recent[m][i] : i \in (managers[m].maxResidentChunks + 1)..Len(recent[m])}

\* C22: after a tile is evicted, hasChunk on its key is false, and the next
\* getChunk on that key is counted as a miss, runs the generator again (when
\* the manager has one) and returns a fresh tile: a new object whose water
\* is what the generator gives and whose runoff is zero, whatever was
\* written into the evicted tile.
C22_EvictedIsRegenerated ==
  \A k \in EvictedKeys(1) :
    LET M == managers[1]
        r == getChunk(M, k[1], k[2])
        zero == createLandChunk(M.created + 1, k[1], k[2], M.chunkCells)
    IN /\ ~hasChunk(M, k[1], k[2])
       /\ r.M.cacheMisses = M.cacheMisses + 1
       /\ r.M.cacheHits = M.cacheHits
       /\ r.chunk.id \notin 1..Len(held)
       /\ r.chunk = IF M.generator THEN chunkGenerator(zero) ELSE zero
       /\ r.chunk.runoffFlux = 0
       /\ r.chunk.waterDepthM = IF M.generator THEN OceanDepth(k[1], k[2]) ELSE 0
       /\ r.chunk.waterDepthM # WrittenWater

\* The tile of (0, 0) was written to and evicted, and getChunk has made it
\* again: the caller holds the written object and the new one.
C22_Witness ==
  /\ cret.op = "getChunk"
  /\ Len(held) >= 3
  /\ held[1].cx = 0 /\ held[1].cy = 0
  /\ held[1].waterDepthM = WrittenWater
  /\ held[1].runoffFlux = WrittenRunoff
  /\ cret.chunk.id = Len(held)
  /\ cret.chunk.cx = 0 /\ cret.chunk.cy = 0
  /\ cret.chunk.waterDepthM = 1
  /\ cret.chunk.runoffFlux = 0
  /\ EvictedKeys(1) # {}

\* ------------------------------------------------ surface-water router

\* Heights and depths are whole numbers of units of 2^-20 m (about one
\* micrometre). A Float32Array element holds a number of 24 significant
\* bits: every whole number of units below 2^24 (16 m), every second one
\* below 2^25, every fourth one below 2^26. The numbers of the computation
\* itself are doubles; the model rounds their products down to the unit.
SignificandBits == 24

RECURSIVE TwoTo(_)
TwoTo(n) == IF n = 0 THEN 1 ELSE 2 * TwoTo(n - 1)

Abs(x) == IF x < 0 THEN 0 - x ELSE x

\* The distance between the float32 numbers around a >= 0.
RECURSIVE Ulp(_)
Ulp(a) == IF a < TwoTo(SignificandBits) THEN 1 ELSE 2 * Ulp(a \div 2)

\* The store into a Float32Array: round to nearest, ties to even.
Fround(x) ==
  LET a == Abs(x)
      u == Ulp(a)
      q == a \div u
      r == a % u
      m == IF 2 * r > u \/ (2 * r = u /\ q % 2 = 1) THEN (q + 1) * u ELSE q * u
  IN IF x < 0 THEN 0 - m ELSE m

\* x * num / den for x >= 0, rounded down.
MulRat(x, num, den) == (x \div den) * num + ((x % den) * num) \div den

\* D8 directions N, NE, E, SE, S, SW, W, NW; weights in ten-thousandths.
D8_DX == <<0, 1, 1, 1, 0, 0 - 1, 0 - 1, 0 - 1>>

D8_DY == <<0 - 1, 0 - 1, 0, 1, 1, 1, 0, 0 - 1>>

D8_WEIGHT == <<10000, 7071, 10000, 7071, 10000, 7071, 10000, 7071>>

WeightUnit == 10000

NoGhost == [none |-> TRUE]

\* A search that looks at the cells of the tile only, border or not.
RECURSIVE FindLowestInside(_, _, _, _, _, _, _)
FindLowestInside(data, chunkCells, ghost, x, y, d, low) ==
  IF d = 8 THEN low
  ELSE LET nx == x + D8_DX[d + 1]
           ny == y + D8_DY[d + 1]
           nIdx == ny * chunkCells + nx
       IN FindLowestInside(data, chunkCells, ghost, x, y, d + 1,
            IF /\ nx >= 0 /\ nx < chunkCells /\ ny >= 0 /\ ny < chunkCells
               /\ data.terrainHeightM[nIdx] + data.waterDepthM[nIdx] < low.surface
            THEN [idx |-> nIdx, isGhost |-> FALSE,
                  surface |-> data.terrainHeightM[nIdx] + data.waterDepthM[nIdx],
                  weight |-> D8_WEIGHT[d + 1], pIdx |-> 0 - 1]
            ELSE low)

\* The inner loop of stepChunkHydrology over the directions d..7 for the
\* cell (x, y): low is [idx, isGhost, surface, weight] so far.
RECURSIVE FindLowest(_, _, _, _, _, _, _)
FindLowest(data, chunkCells, ghost, x, y, d, low) ==
  IF d = 8 THEN low
  ELSE LET nx == x + D8_DX[d + 1]
           ny == y + D8_DY[d + 1]
           next ==
             IF nx >= 0 /\ nx < chunkCells /\ ny >= 0 /\ ny < chunkCells
             THEN LET nIdx == ny * chunkCells + nx
                      nSurface == data.terrainHeightM[nIdx] + data.waterDepthM[nIdx]
                  IN IF nSurface < low.surface
                     THEN [idx |-> nIdx, isGhost |-> FALSE, surface |-> nSurface,
                           weight |-> D8_WEIGHT[d + 1], pIdx |-> 0 - 1]
                     ELSE low
             ELSE IF ghost # NoGhost
             THEN LET pIdx == (ny + 1) * ghost.paddedSize + (nx + 1)
                      nSurface == ghost.terrainHeightM[pIdx] + ghost.waterDepthM[pIdx]
                  IN IF nSurface < low.surface
                     THEN [idx |-> 0 - 2, isGhost |-> TRUE, surface |-> nSurface,
                           weight |-> D8_WEIGHT[d + 1], pIdx |-> pIdx]
                     ELSE low
             ELSE low
       IN FindLowest(data, chunkCells, ghost, x, y, d + 1, next)

NoFlow == [flows |-> FALSE]

\* The body of the scan for the cell idx below the search: water and
\* surfaceLevel are the cell's, low what the search over its neighbours
\* found. NoFlow where the code continues, else [flows, src, dst, isGhost,
\* flow, pIdx].
FlowTo(config, idx, water, surfaceLevel, low) ==
  LET surfaceDiff == surfaceLevel - low.surface
      half == MulRat(surfaceDiff, 1, 2)
      maxTransfer == IF water < half THEN water ELSE half
      flow == MulRat(MulRat(maxTransfer, config.flowFraction.num, config.flowFraction.den),
                     low.weight, WeightUnit)
  IN IF water < config.minWaterDepthM THEN NoFlow
     ELSE IF low.idx = 0 - 1 /\ ~low.isGhost THEN NoFlow
     ELSE IF flow < config.minWaterDepthM THEN NoFlow
     ELSE [flows |-> TRUE, src |-> idx, dst |-> low.idx, isGhost |-> low.isGhost,
           flow |-> flow, pIdx |-> low.pIdx]

\* The body of the scan for the cell idx.
CellFlow(data, chunkCells, config, ghost, idx) ==
  FlowTo(config, idx, data.waterDepthM[idx],
         data.terrainHeightM[idx] + data.waterDepthM[idx],
         FindLowest(data, chunkCells, ghost, idx % chunkCells, idx \div chunkCells, 0,
                    [idx |-> 0 - 1, isGhost |-> FALSE,
                     surface |-> data.terrainHeightM[idx] + data.waterDepthM[idx],
                     weight |-> WeightUnit, pIdx |-> 0 - 1]))

\* A scan that records the inflow of the target and no outflow of the source.
RECURSIVE ScanKeepSource(_, _, _, _, _, _)
ScanKeepSource(data, chunkCells, config, ghost, idx, acc) ==
  IF idx = chunkCells * chunkCells THEN acc
  ELSE LET f == CellFlow(data, chunkCells, config, ghost, idx)
       IN ScanKeepSource(data, chunkCells, config, ghost, idx + 1,
            IF ~f.flows THEN acc
            ELSE [deltaWater |-> IF f.isGhost THEN acc.deltaWater
                                 ELSE [acc.deltaWater EXCEPT ![f.dst] = Fround(@ + f.flow)],
                  runoffFlux |-> acc.runoffFlux,
                  totalFlowVolume |-> acc.totalFlowVolume + f.flow,
                  activeCellSet |-> acc.activeCellSet \cup {idx}])

\* A scan that records the outflow of the source and no inflow of the target.
RECURSIVE ScanDropTarget(_, _, _, _, _, _)
ScanDropTarget(data, chunkCells, config, ghost, idx, acc) ==
  IF idx = chunkCells * chunkCells THEN acc
  ELSE LET f == CellFlow(data, chunkCells, config, ghost, idx)
       IN ScanDropTarget(data, chunkCells, config, ghost, idx + 1,
            IF ~f.flows THEN acc
            ELSE [deltaWater |-> [acc.deltaWater EXCEPT ![idx] = Fround(@ - f.flow)],
                  runoffFlux |-> acc.runoffFlux,
                  totalFlowVolume |-> acc.totalFlowVolume + f.flow,
                  activeCellSet |-> acc.activeCellSet \cup {idx}])

\* The writes of the scan for the cell idx with the flow f: the source
\* loses f.flow, an interior target and its runoff gain it, a ghost target
\* gains nothing.
Transfer(acc, config, idx, f) ==
  IF ~f.flows THEN acc
  ELSE [deltaWater |->
          IF f.isGhost THEN [acc.deltaWater EXCEPT ![idx] = Fround(@ - f.flow)]
          ELSE [[acc.deltaWater EXCEPT ![idx] = Fround(@ - f.flow)]
                  EXCEPT ![f.dst] = Fround(@ + f.flow)],
        runoffFlux |->
          IF ~f.isGhost /\ config.trackRunoffFlux
          THEN [acc.runoffFlux EXCEPT ![f.dst] = Fround(@ + f.flow)]
          ELSE acc.runoffFlux,
        totalFlowVolume |-> acc.totalFlowVolume + f.flow,
        activeCellSet |-> acc.activeCellSet \cup {idx}]

\* The scan of one sub-step from the cell idx on: acc is [deltaWater,
\* runoffFlux, totalFlowVolume, activeCellSet].
RECURSIVE Scan(_, _, _, _, _, _)
Scan(data, chunkCells, config, ghost, idx, acc) ==
  IF idx = chunkCells * chunkCells THEN acc
  ELSE Scan(data, chunkCells, config, ghost, idx + 1,
            Transfer(acc, config, idx, CellFlow(data, chunkCells, config, ghost, idx)))

\* The apply pass without the clamp.
applyDeltasUnclamped(waterDepthM, deltaWater) ==
  [i \in DOMAIN waterDepthM |->
     IF deltaWater[i] # 0 THEN Fround(waterDepthM[i] + deltaWater[i])
     ELSE waterDepthM[i]]

\* The apply pass: waterDepthM[i] += deltaWater[i], clamped at 0.
applyDeltas(waterDepthM, deltaWater) ==
  [i \in DOMAIN waterDepthM |->
     IF deltaWater[i] # 0
     THEN LET v == Fround(waterDepthM[i] + deltaWater[i])
          IN IF v < 0 THEN 0 ELSE v
     ELSE waterDepthM[i]]

\* One sub-step on the call h: h is [data, chunkCells, config, ghost, step,
\* totalFlowVolume, activeCellSet].
subStep(h) ==
  LET acc == Scan(h.data, h.chunkCells, h.config, h.ghost, 0,
                  [deltaWater |-> [i \in DOMAIN h.data.waterDepthM |-> 0],
                   runoffFlux |-> h.data.runoffFlux,
                   totalFlowVolume |-> h.totalFlowVolume,
                   activeCellSet |-> h.activeCellSet])
  IN [h EXCEPT !.data.waterDepthM = applyDeltas(@, acc.deltaWater),
               !.data.runoffFlux = acc.runoffFlux,
               !.totalFlowVolume = acc.totalFlowVolume,
               !.activeCellSet = acc.activeCellSet,
               !.step = @ + 1]

\* The HydrologyStats a call returns.
hydrologyStats(h) ==
  [totalFlowVolume |-> h.totalFlowVolume,
   activeCells |-> Cardinality(h.activeCellSet),
   subSteps |-> h.config.subStepsPerTick]

\* ---- SpecHydro: stepChunkHydrology on one tile of 2 by 2 cells, without a
\* ghost border or with one, sub-step by sub-step, and again on the same
\* tile when it has returned.

MaxSubSteps == 2

MaxRoutingCalls == 2

HydroChunkCells == 2

\* 64 m in units: float32 numbers are 4 units apart below it, 8 above.
Deep == 4 * TwoTo(SignificandBits)

\* terrainHeightM of the tile: flat; a slope; a basin of cell 0 behind a
\* brim 12 units under 64 m, the other cells above.
TerrainMenu ==
  {[i \in 0..3 |-> 0],
   [i \in 0..3 |-> <<40, 20, 20, 0>>[i + 1]],
   [i \in 0..3 |-> <<0, Deep - 12, Deep + 8, Deep + 8>>[i + 1]]}

\* waterDepthM of a cell: dry, under the threshold, shallow, 64 m.
WaterMenu == {0, 1, 30, Deep}

\* The level of the cells of a ghost border: under every cell of the tile,
\* between them, above them.
GhostLevels == {0 - 100, 10, Deep + 16}

\* flowFraction: the default 0.4, 1, and 2 (the code accepts any number).
FlowFractions == {[num |-> 2, den |-> 5], [num |-> 1, den |-> 1], [num |-> 2, den |-> 1]}

\* minWaterDepthM: the default 1e-6 m is 1.05 units; a whole number of
\* units is under it exactly when it is under 2.
HydrologyConfigs ==
  {[flowFraction |-> ff, subStepsPerTick |-> n, minWaterDepthM |-> 2,
    trackRunoffFlux |-> TRUE] : ff \in FlowFractions, n \in 1..MaxSubSteps}

\* A ghost border of paddedSize chunkCells + 2 around the tile data: the
\* interior copies the tile, the border cells are dry ground at level.
GhostAround(data, chunkCells, level) ==
  LET ps == chunkCells + 2
      inside(p) == /\ (p % ps) >= 1 /\ (p % ps) <= chunkCells
                   /\ (p \div ps) >= 1 /\ (p \div ps) <= chunkCells
      center(p) == ((p \div ps) - 1) * chunkCells + ((p % ps) - 1)
  IN [paddedSize |-> ps,
      terrainHeightM |-> [p \in 0..(ps * ps - 1) |->
                            IF inside(p) THEN data.terrainHeightM[center(p)] ELSE level],
      waterDepthM |-> [p \in 0..(ps * ps - 1) |->
                         IF inside(p) THEN data.waterDepthM[center(p)] ELSE 0]]

\* The entry of stepChunkHydrology(data, chunkCells, config, ghost).
stepChunkHydrology(data, chunkCells, config, ghost, nth) ==
  [pc |-> "routing", data |-> data, chunkCells |-> chunkCells, config |-> config,
   ghost |-> ghost, step |-> 0, totalFlowVolume |-> 0, activeCellSet |-> {},
   before |-> data.waterDepthM, calls |-> nth]

InitHydro ==
  /\ EngineStarted(<<>>, NoState)
  /\ CacheAbsent
  /\ rng = NoRng
  /\ \E terrain \in TerrainMenu, water \in [0..3 -> WaterMenu],
        config \in HydrologyConfigs, withGhost \in BOOLEAN, level \in GhostLevels :
       LET data == [terrainHeightM |-> terrain, waterDepthM |-> water,
                    runoffFlux |-> [i \in 0..3 |-> 0]]
       IN hydro = stepChunkHydrology(data, HydroChunkCells, config,
                    IF withGhost THEN GhostAround(data, HydroChunkCells, level)
                    ELSE NoGhost, 1)

\* One pass of the loop over step.
SubStep ==
  /\ hydro.pc = "routing"
  /\ hydro.step < hydro.config.subStepsPerTick
  /\ hydro' = subStep(hydro)
  /\ UNCHANGED <<vars, cvars, rng>>

\* The loop is over: the statistics are returned.
ReturnStats ==
  /\ hydro.pc = "routing"
  /\ hydro.step >= hydro.config.subStepsPerTick
  /\ hydro' = [pc |-> "returned", data |-> hydro.data, chunkCells |-> hydro.chunkCells,
               config |-> hydro.config, ghost |-> hydro.ghost,
               before |-> hydro.before, calls |-> hydro.calls,
               stats |-> hydrologyStats(hydro)]
  /\ UNCHANGED <<vars, cvars, rng>>

\* stepChunkHydrology is called again on the tile, with the same border.
CallAgain ==
  /\ hydro.pc = "returned"
  /\ hydro.calls < MaxRoutingCalls
  /\ hydro' = stepChunkHydrology(hydro.data, hydro.chunkCells, hydro.config,
                                 hydro.ghost, hydro.calls + 1)
  /\ UNCHANGED <<vars, cvars, rng>>

NextHydro == SubStep \/ ReturnStats \/ CallAgain

SpecHydro == InitHydro /\ [][NextHydro]_allvars

\* ------------------------------------- claims about the water router

\* The sum of the elements 0..n-1 of the array f.
RECURSIVE SumTo(_, _)
SumTo(f, n) == IF n = 0 THEN 0 ELSE f[n - 1] + SumTo(f, n - 1)

\* The sum of waterDepthM over the tile of the call h.
SumWater(h) == SumTo(h.data.waterDepthM, h.chunkCells * h.chunkCells)

\* The deltaWater buffer the scan of the next sub-step of h records.
DeltaWater(h) ==
  Scan(h.data, h.chunkCells, h.config, h.ghost, 0,
       [deltaWater |-> [i \in DOMAIN h.data.waterDepthM |-> 0],
        runoffFlux |-> h.data.runoffFlux,
        totalFlowVolume |-> h.totalFlowVolume,
        activeCellSet |-> h.activeCellSet]).deltaWater

\* The step is one sub-step of a routing call.
IsSubStep == hydro.pc = "routing" /\ hydro'.pc = "routing"

\* flowFraction is in (0, 1].
FlowFractionInRange(h) ==
  /\ h.config.flowFraction.num > 0
  /\ h.config.flowFraction.num <= h.config.flowFraction.den

\* The rounding a sub-step's float32 stores can add up to: cellCount times
\* 2^-21 of the water s.
Tolerance(h, s) == MulRat(s, h.chunkCells * h.chunkCells, TwoTo(SignificandBits - 3))

\* C23 as stated: without a ghost border the sum of waterDepthM is the same
\* before and after every sub-step, and the recorded deltas sum to zero.
C23_ConservedExactly ==
  [][(IsSubStep /\ hydro.ghost = NoGhost /\ FlowFractionInRange(hydro))
       => /\ SumTo(DeltaWater(hydro), hydro.chunkCells * hydro.chunkCells) = 0
          /\ SumWater(hydro') = SumWater(hydro)]_allvars

\* C23 amended: without a ghost border and with flowFraction in (0, 1], the
\* sum of waterDepthM after a sub-step differs from the sum before by no
\* more than the rounding of the float32 stores (cellCount times 2^-21 of
\* the sum before), and so does the sum of the recorded deltas from zero;
\* no cell is clamped.
C23_ConservedToRounding ==
  [][(IsSubStep /\ hydro.ghost = NoGhost /\ FlowFractionInRange(hydro))
       => LET n == hydro.chunkCells * hydro.chunkCells
              delta == DeltaWater(hydro)
          IN /\ Abs(SumTo(delta, n)) <= Tolerance(hydro, SumWater(hydro))
             /\ Abs(SumWater(hydro') - SumWater(hydro))
                  <= Tolerance(hydro, SumWater(hydro))
             /\ \A i \in 0..(n - 1) : hydro.data.waterDepthM[i] + delta[i] >= 0]_allvars

\* Two sub-steps without a ghost border have moved water, and the sum is
\* not what it was before the call.
C23_Witness ==
  /\ hydro.pc = "returned"
  /\ hydro.ghost = NoGhost
  /\ FlowFractionInRange(hydro)
  /\ hydro.stats.subSteps = 2
  /\ hydro.stats.totalFlowVolume > 0
  /\ SumWater(hydro) # SumTo(hydro.before, 4)

\* C24: after every sub-step of routing, with or without a ghost border,
\* every cell of the tile has waterDepthM >= 0.
C24_NoNegativeWater ==
  hydro.pc \in {"routing", "returned"}
    => \A i \in DOMAIN hydro.data.waterDepthM : hydro.data.waterDepthM[i] >= 0

\* With flowFraction 2 and a ghost border under the tile, a cell of 30
\* units was to lose 60: the sub-step left it at 0.
C24_Witness ==
  /\ hydro.pc = "routing"
  /\ hydro.step = 1
  /\ hydro.calls = 1
  /\ hydro.config.flowFraction = [num |-> 2, den |-> 1]
  /\ hydro.ghost # NoGhost
  /\ hydro.before[0] = 30
  /\ hydro.data.terrainHeightM[0] = 0
  /\ hydro.data.waterDepthM[0] = 0
  /\ hydro.totalFlowVolume >= 60

\* The step returns from a routing call.
IsReturn == hydro.pc = "routing" /\ hydro'.pc = "returned"

\* C25 as stated: with a ghost border (and no inflow source) the sum of
\* waterDepthM over the center tile never increases across a sub-step, nor
\* across the call.
C25_NeverIncreases ==
  [][/\ (IsSubStep /\ hydro.ghost # NoGhost /\ FlowFractionInRange(hydro))
          => SumWater(hydro') <= SumWater(hydro)
     /\ (IsReturn /\ hydro.ghost # NoGhost /\ FlowFractionInRange(hydro))
          => SumWater(hydro') <= SumTo(hydro.before, hydro.chunkCells * hydro.chunkCells)
    ]_allvars

\* C25 amended: with a ghost border, flowFraction in (0, 1] and no inflow
\* source, the sum of waterDepthM over the center tile after a sub-step is
\* at most the sum before plus the rounding of the float32 stores
\* (cellCount times 2^-21 of the sum before), and after the call at most
\* the sum before the call plus that rounding for each sub-step.
C25_IncreasesByRoundingOnly ==
  [][/\ (IsSubStep /\ hydro.ghost # NoGhost /\ FlowFractionInRange(hydro))
          => SumWater(hydro') <= SumWater(hydro) + Tolerance(hydro, SumWater(hydro))
     /\ (IsReturn /\ hydro.ghost # NoGhost /\ FlowFractionInRange(hydro))
          => LET before == SumTo(hydro.before, hydro.chunkCells * hydro.chunkCells)
             IN SumWater(hydro')
                  <= before + hydro.config.subStepsPerTick * Tolerance(hydro, 2 * before)
    ]_allvars

\* A call with a ghost border above the tile has returned: water moved
\* inside the tile and the sum is more than before the call.
C25_Witness ==
  /\ hydro.pc = "returned"
  /\ hydro.ghost # NoGhost
  /\ FlowFractionInRange(hydro)
  /\ hydro.stats.totalFlowVolume > 0
  /\ SumWater(hydro) > SumTo(hydro.before, 4)

\* C26: with a ghost border, the decrease of the center tile's summed
\* waterDepthM over a routing call equals the outflow the statistics
\* returned by the call record (totalFlowVolume is the one volume in them).
C26_DecreaseIsRecorded ==
  [][(IsReturn /\ hydro.ghost # NoGhost /\ FlowFractionInRange(hydro))
       => SumTo(hydro.before, hydro.chunkCells * hydro.chunkCells) - SumWater(hydro')
            = hydro'.stats.totalFlowVolume]_allvars

\* ------------------------------ routing with borders over the cache

\* The typed arrays of a chunk object as getChunk hands it out: zeros from
\* createLandChunk; when the generator has run, the height terrainFn gives
\* the cells of the chunk and the water depth the generator set.
generatedTile(terrainFn, chunk) ==
  LET cells == 0..(chunk.chunkCells * chunk.chunkCells - 1)
  IN [terrainHeightM |-> [i \in cells |->
                            IF chunk.terrain = "generated"
                            THEN terrainFn[chunkKey(chunk.cx, chunk.cy)] ELSE 0],
      waterDepthM |-> [i \in cells |-> chunk.waterDepthM],
      runoffFlux |-> [i \in cells |-> chunk.runoffFlux]]

\* S = [M, tiles, terrainFn] after the getChunk call that returned r:
\* tiles[id] holds the typed arrays of the chunk object id, resident or
\* evicted; a miss has created the next object and run the generator on it.
WithTile(S, r) ==
  [M |-> r.M,
   tiles |-> IF r.M.created > S.M.created
             THEN Append(S.tiles, generatedTile(S.terrainFn, r.chunk))
             ELSE S.tiles,
   terrainFn |-> S.terrainFn,
   chunk |-> r.chunk]

\* manager.getChunk(cx, cy) on S.
getChunkData(S, cx, cy) == WithTile(S, getChunk(S.M, cx, cy))

\* The chunks buildGhostBorder reads, in the order of its getChunk calls:
\* center, N, S, W, E, NW, NE, SW, SE.
GhostOffsets ==
  <<<<0, 0>>, <<0, 0 - 1>>, <<0, 1>>, <<0 - 1, 0>>, <<1, 0>>,
    <<0 - 1, 0 - 1>>, <<1, 0 - 1>>, <<0 - 1, 1>>, <<1, 1>>>>

\* The getChunk calls i..9 of buildGhostBorder: [S, ids], ids the chunk
\* objects returned so far, in call order.
RECURSIVE GhostChunks(_, _, _, _, _)

\* The calls after the call i, which returned r.
GhostChunksAfter(r, cx, cy, i, ids) ==
  GhostChunks(r, cx, cy, i + 1, Append(ids, r.chunk.id))

GhostChunks(S, cx, cy, i, ids) ==
  IF i > Len(GhostOffsets) THEN [S |-> S, ids |-> ids]
  ELSE GhostChunksAfter(getChunkData(S, cx + GhostOffsets[i][1], cy + GhostOffsets[i][2]),
                        cx, cy, i, ids)

\* The side of the padded grid the coordinate p lies on: -1, 0 (interior), 1.
GhostSide(p, cc) == IF p = 0 THEN 0 - 1 ELSE IF p = cc + 1 THEN 1 ELSE 0

\* The cell coordinate of the chunk copied to the padded coordinate p.
GhostSource(p, cc) == IF p = 0 THEN cc - 1 ELSE IF p = cc + 1 THEN 0 ELSE p - 1

\* The place in GhostOffsets of the chunk at the offset (ox, oy).
GhostOffsetIndex(ox, oy) ==
  CHOOSE i \in 1..Len(GhostOffsets) : GhostOffsets[i] = <<ox, oy>>

\* The padded arrays copied from the chunks g = [S, ids] the calls
\* returned: [S, ghost].
GhostOf(g) ==
  [S |-> g.S,
   ghost |->
     [paddedSize |-> g.S.M.chunkCells + 2,
      terrainHeightM |->
        [p \in 0..((g.S.M.chunkCells + 2) * (g.S.M.chunkCells + 2) - 1) |->
           g.S.tiles[g.ids[GhostOffsetIndex(
                             GhostSide(p % (g.S.M.chunkCells + 2), g.S.M.chunkCells),
                             GhostSide(p \div (g.S.M.chunkCells + 2), g.S.M.chunkCells))]]
             .terrainHeightM[GhostSource(p \div (g.S.M.chunkCells + 2), g.S.M.chunkCells)
                               * g.S.M.chunkCells
                             + GhostSource(p % (g.S.M.chunkCells + 2), g.S.M.chunkCells)]],
      waterDepthM |->
        [p \in 0..((g.S.M.chunkCells + 2) * (g.S.M.chunkCells + 2) - 1) |->
           g.S.tiles[g.ids[GhostOffsetIndex(
                             GhostSide(p % (g.S.M.chunkCells + 2), g.S.M.chunkCells),
                             GhostSide(p \div (g.S.M.chunkCells + 2), g.S.M.chunkCells))]]
             .waterDepthM[GhostSource(p \div (g.S.M.chunkCells + 2), g.S.M.chunkCells)
                            * g.S.M.chunkCells
                          + GhostSource(p % (g.S.M.chunkCells + 2), g.S.M.chunkCells)]]]]

\* buildGhostBorder(cx, cy, manager): [S, ghost].
buildGhostBorder(cx, cy, S) == GhostOf(GhostChunks(S, cx, cy, 1, <<>>))

\* The loop of stepChunkHydrology from the entry h to its return.
RECURSIVE RunSubSteps(_)
RunSubSteps(h) ==
  IF h.step >= h.config.subStepsPerTick THEN h ELSE RunSubSteps(subStep(h))

\* The return of stepChunkHydrologyWithBorders: the routing h of the chunk
\* object id has ended, b is what buildGhostBorder returned.
RoutedChunk(id, b, h) ==
  [S |-> [b.S EXCEPT !.tiles[id] = h.data], stats |-> hydrologyStats(h), id |-> id,
   seen |-> b]

\* stepChunkHydrology on the data of the chunk object id with the border b.
RouteChunk(id, b, config) ==
  RoutedChunk(id, b, RunSubSteps(stepChunkHydrology(b.S.tiles[id], b.S.M.chunkCells,
                                                     config, b.ghost, 0)))

\* stepChunkHydrologyWithBorders from its second line on, c what getChunk
\* returned.
RouteWithBorders(cx, cy, c, config) ==
  RouteChunk(c.chunk.id, buildGhostBorder(cx, cy, c), config)

\* stepChunkHydrologyWithBorders(cx, cy, manager, config) on S: [S, stats,
\* id, seen], id the chunk object routed, seen the border and the tiles the
\* routing started from.
stepChunkHydrologyWithBorders(cx, cy, S, config) ==
  RouteWithBorders(cx, cy, getChunkData(S, cx, cy), config)

\* addWaterAtCell(data, chunkCells, localX, localY, amountM).
addWaterAtCell(data, chunkCells, localX, localY, amountM) ==
  [data EXCEPT !.waterDepthM[localY * chunkCells + localX] = Fround(@ + amountM)]

\* ---- SpecBorders: a world of 2 by 2 chunks of one cell behind a cache
\* that holds them all; the caller adds water to cells and routes chunks
\* with stepChunkHydrologyWithBorders, in any order.

MaxBorderCalls == 2

MaxWaterings == 2

BorderConfig ==
  [chunkCells |-> 1, worldChunksX |-> 2, worldChunksY |-> 2, maxResidentChunks |-> 100]

BorderCoords == 0..1

\* The terrain functions: a flat world; chunk (0,0) above the others; a
\* slope from chunk (0,0) down to chunk (1,1).
TerrainFns ==
  {[k \in {"0,0", "1,0", "0,1", "1,1"} |-> 0],
   [k \in {"0,0", "1,0", "0,1", "1,1"} |-> IF k = "0,0" THEN 400 ELSE 0],
   [k \in {"0,0", "1,0", "0,1", "1,1"} |->
      IF k = "0,0" THEN 400 ELSE IF k = "1,1" THEN 0 ELSE 200]}

\* The water a caller adds to a cell.
WaterAmounts == {600}

\* The default flowFraction, with one sub-step or more.
BorderHydrologyConfigs ==
  {c \in HydrologyConfigs : c.flowFraction = [num |-> 2, den |-> 5]}

NoCall == [none |-> TRUE]

\* The summed water of the resident chunk with the key, 0 when the key is
\* not resident.
WaterOfKey(S, key) ==
  LET n == CacheGet(S.M.cache, key)
  IN IF n = NoNode THEN 0
     ELSE SumTo(S.tiles[S.M.nodes[n].chunk.id].waterDepthM,
                S.M.chunkCells * S.M.chunkCells)

\* The keys of the chunks whose ghost cells take a flow in the sub-steps
\* of the call h on chunk (cx, cy) that are still to run.
RECURSIVE HaloKeys(_, _, _, _)
HaloKeys(h, M, cx, cy) ==
  IF h.step >= h.config.subStepsPerTick THEN {}
  ELSE LET ps == h.chunkCells + 2
           flowsOut == {CellFlow(h.data, h.chunkCells, h.config, h.ghost, i) :
                          i \in 0..(h.chunkCells * h.chunkCells - 1)}
       IN {chunkKey(wrapCx(M, cx + GhostSide(f.pIdx % ps, h.chunkCells)),
                    wrapCy(M, cy + GhostSide(f.pIdx \div ps, h.chunkCells))) :
             f \in {g \in flowsOut : g.flows /\ g.isGhost}}
          \cup HaloKeys(subStep(h), M, cx, cy)

InitBorders ==
  /\ EngineStarted(<<>>, NoState)
  /\ CacheAbsent
  /\ rng = NoRng
  /\ \E terrainFn \in TerrainFns, config \in BorderHydrologyConfigs :
       hydro = [pc |-> "borders", M |-> createLandChunkManager(BorderConfig, TRUE),
                tiles |-> <<>>, terrainFn |-> terrainFn, config |-> config,
                last |-> NoCall, calls |-> 0, waterings |-> 0]

\* hydro after addWaterAtCell on the chunk c that getChunk returned.
Watered(c, localX, localY, amountM) ==
  [hydro EXCEPT !.M = c.M,
     !.tiles = [c.tiles EXCEPT ![c.chunk.id] =
                  addWaterAtCell(@, c.M.chunkCells, localX, localY, amountM)],
     !.last = NoCall,
     !.waterings = @ + 1]

\* The caller gets the chunk and adds water to one of its cells.
AddWater(cx, cy, localX, localY, amountM) ==
  /\ hydro.pc = "borders"
  /\ hydro.waterings < MaxWaterings
  /\ hydro' = Watered(getChunkData(hydro, cx, cy), localX, localY, amountM)
  /\ UNCHANGED <<vars, cvars, rng>>

\* hydro after the call r on chunk (cx, cy); last keeps what the call saw
\* and did: the water of every chunk before it, the chunk routed, the
\* chunks whose ghost cells took a flow, the statistics, the chunk object
\* whose arrays the routing wrote.
Stepped(cx, cy, r) ==
  [hydro EXCEPT !.M = r.S.M,
     !.tiles = r.S.tiles,
     !.last = [routed |-> chunkKey(wrapCx(hydro.M, cx), wrapCy(hydro.M, cy)),
               before |-> [k \in {chunkKey(x, y) : x \in BorderCoords, y \in BorderCoords}
                             |-> WaterOfKey(r.seen.S, k)],
               took |-> HaloKeys(stepChunkHydrology(r.seen.S.tiles[r.id],
                                   r.seen.S.M.chunkCells, hydro.config, r.seen.ghost, 0),
                                 hydro.M, cx, cy),
               stats |-> r.stats,
               id |-> r.id],
     !.calls = @ + 1]

\* The caller routes the chunk (cx, cy).
StepBorders(cx, cy) ==
  /\ hydro.pc = "borders"
  /\ hydro.calls < MaxBorderCalls
  /\ hydro' = Stepped(cx, cy, stepChunkHydrologyWithBorders(cx, cy, hydro, hydro.config))
  /\ UNCHANGED <<vars, cvars, rng>>

NextBorders ==
  \/ \E cx \in BorderCoords, cy \in BorderCoords, amountM \in WaterAmounts :
       AddWater(cx, cy, 0, 0, amountM)
  \/ \E cx \in BorderCoords, cy \in BorderCoords : StepBorders(cx, cy)

SpecBorders == InitBorders /\ [][NextBorders]_allvars

\* C27: water that left a chunk through the halo re-enters the neighbour:
\* when the chunk routed last sent water to ghost cells of a neighbour and
\* that neighbour is routed next, the water of the two chunks together is
\* afterwards what it was before the first of the two calls.
C27_OutflowReenters ==
  [][(/\ hydro.pc = "borders" /\ hydro.last # NoCall
      /\ hydro'.last # NoCall /\ hydro'.calls = hydro.calls + 1
      /\ hydro'.last.routed # hydro.last.routed
      /\ hydro'.last.routed \in hydro.last.took)
       => WaterOfKey(hydro', hydro.last.routed) + WaterOfKey(hydro', hydro'.last.routed)
            = hydro.last.before[hydro.last.routed] + hydro.last.before[hydro'.last.routed]]_allvars

\* ------------------------------------- C28: when water leaves the tile

\* The surface level of the D8 neighbour d (1..8) of the cell (x, y) of the
\* call h with a ghost border: a cell of the tile, or a halo cell.
NeighbourSurface(h, x, y, d) ==
  LET nx == x + D8_DX[d]
      ny == y + D8_DY[d]
  IN IF nx >= 0 /\ nx < h.chunkCells /\ ny >= 0 /\ ny < h.chunkCells
     THEN h.data.terrainHeightM[ny * h.chunkCells + nx]
            + h.data.waterDepthM[ny * h.chunkCells + nx]
     ELSE h.ghost.terrainHeightM[(ny + 1) * h.ghost.paddedSize + (nx + 1)]
            + h.ghost.waterDepthM[(ny + 1) * h.ghost.paddedSize + (nx + 1)]

\* The neighbour d of the cell (x, y) is outside the tile, in the halo.
InHalo(h, x, y, d) ==
  LET nx == x + D8_DX[d]
      ny == y + D8_DY[d]
  IN ~(nx >= 0 /\ nx < h.chunkCells /\ ny >= 0 /\ ny < h.chunkCells)

\* The directions in which the steepest-descent neighbour of the cell idx
\* is a strictly lower halo cell: the lowest of the eight surfaces, the
\* first of them in the order N, NE, E, SE, S, SW, W, NW, lies in the halo
\* and under the surface of the cell. The set has one element or none.
HaloDescent(h, idx) ==
  LET x == idx % h.chunkCells
      y == idx \div h.chunkCells
      s == h.data.terrainHeightM[idx] + h.data.waterDepthM[idx]
  IN {d \in 1..8 :
        /\ InHalo(h, x, y, d)
        /\ NeighbourSurface(h, x, y, d) < s
        /\ \A e \in 1..8 :
             /\ e < d => NeighbourSurface(h, x, y, e) > NeighbourSurface(h, x, y, d)
             /\ e > d => NeighbourSurface(h, x, y, e) >= NeighbourSurface(h, x, y, d)}

\* The water the cell idx sends to the halo in the next sub-step of h: none
\* unless the cell holds minWaterDepthM, descends to the halo and the flow
\* reaches minWaterDepthM.
HaloFlow(h, idx) ==
  LET x == idx % h.chunkCells
      y == idx \div h.chunkCells
      water == h.data.waterDepthM[idx]
      d == CHOOSE e \in HaloDescent(h, idx) : TRUE
      diff == h.data.terrainHeightM[idx] + water - NeighbourSurface(h, x, y, d)
      most == IF water < MulRat(diff, 1, 2) THEN water ELSE MulRat(diff, 1, 2)
      flow == MulRat(MulRat(most, h.config.flowFraction.num, h.config.flowFraction.den),
                     D8_WEIGHT[d], WeightUnit)
  IN IF water < h.config.minWaterDepthM \/ HaloDescent(h, idx) = {} THEN 0
     ELSE IF flow < h.config.minWaterDepthM THEN 0
     ELSE flow

\* The water the tile sends to the halo in the next sub-step of h.
RECURSIVE HaloOutflowTo(_, _)
HaloOutflowTo(h, n) == IF n = 0 THEN 0 ELSE HaloFlow(h, n - 1) + HaloOutflowTo(h, n - 1)

HaloOutflow(h) == HaloOutflowTo(h, h.chunkCells * h.chunkCells)

\* In one of the sub-steps of the call entered as h a cell of the tile has
\* a strictly lower halo cell as its steepest-descent neighbour.
RECURSIVE HaloDescentInCall(_)
HaloDescentInCall(h) ==
  IF h.step >= h.config.subStepsPerTick THEN FALSE
  ELSE \/ \E idx \in 0..(h.chunkCells * h.chunkCells - 1) : HaloDescent(h, idx) # {}
       \/ HaloDescentInCall(subStep(h))

\* C28 as stated: with a ghost border the sum of waterDepthM over the center
\* tile is less after a call than before it exactly when, in the call, a
\* boundary cell has a strictly lower halo cell as its steepest-descent
\* neighbour.
C28_DecreasesIffHaloDescent ==
  [][(IsReturn /\ hydro.ghost # NoGhost /\ FlowFractionInRange(hydro))
       => ((SumWater(hydro') < SumTo(hydro.before, hydro.chunkCells * hydro.chunkCells))
             <=> HaloDescentInCall(stepChunkHydrology(
                   [hydro.data EXCEPT !.waterDepthM = hydro.before],
                   hydro.chunkCells, hydro.config, hydro.ghost, hydro.calls)))]_allvars

\* C28 amended: with a ghost border and flowFraction in (0, 1], a sub-step
\* lowers the sum of waterDepthM over the center tile by the flows of the
\* cells that hold at least minWaterDepthM, have a strictly lower halo cell
\* as steepest-descent neighbour and a flow of at least minWaterDepthM, up
\* to the rounding of the float32 stores (cellCount times 2^-21 of the sum
\* before); without such a cell the sum changes by that rounding at most.
C28_DecreasesByHaloFlow ==
  [][(IsSubStep /\ hydro.ghost # NoGhost /\ FlowFractionInRange(hydro))
       => Abs(SumWater(hydro) - SumWater(hydro') - HaloOutflow(hydro))
            <= Tolerance(hydro, SumWater(hydro))]_allvars

\* A sub-step has run in which one cell sent water to the halo while
\* another, with less than minWaterDepthM of water, descends to the halo
\* and kept it.
C28_Witness ==
  /\ hydro.pc = "routing"
  /\ hydro.step = 1
  /\ hydro.ghost # NoGhost
  /\ FlowFractionInRange(hydro)
  /\ LET h0 == [hydro EXCEPT !.data.waterDepthM = hydro.before, !.step = 0]
     IN /\ HaloOutflow(h0) > 0
        /\ SumWater(hydro) < SumWater(h0)
        /\ \E idx \in 0..3 : /\ HaloDescent(h0, idx) # {}
                             /\ HaloFlow(h0, idx) = 0
                             /\ hydro.data.waterDepthM[idx] = h0.data.waterDepthM[idx]

\* ------------------------------------------------------------- the RNG
\* A uint32 is a pair <<low, high>> of 16-bit halves; a number held in a
\* double is four such limbs, low first (the values here stay under 2^64).

Half == 65536

RECURSIVE XorBits(_, _, _)
XorBits(a, b, n) ==
  IF n = 0 THEN 0 ELSE ((a + b) % 2) + 2 * XorBits(a \div 2, b \div 2, n - 1)

RECURSIVE OrBits(_, _, _)
OrBits(a, b, n) ==
  IF n = 0 THEN 0
  ELSE (IF a % 2 = 1 \/ b % 2 = 1 THEN 1 ELSE 0) + 2 * OrBits(a \div 2, b \div 2, n - 1)

\* x ^ y on uint32.
Xor(x, y) == <<XorBits(x[1], y[1], 16), XorBits(x[2], y[2], 16)>>

\* x | k for a k under 2^16.
OrSmall(x, k) == <<OrBits(x[1], k, 16), x[2]>>

\* x >>> n for 0 < n <= 16.
Ushr(x, n) ==
  <<(x[1] \div TwoTo(n)) + (x[2] % TwoTo(n)) * TwoTo(16 - n), x[2] \div TwoTo(n)>>

\* Math.imul(x, y): the low 32 bits of the product, computed on bytes.
imul(x, y) ==
  LET a == <<x[1] % 256, x[1] \div 256, x[2] % 256, x[2] \div 256>>
      b == <<y[1] % 256, y[1] \div 256, y[2] % 256, y[2] \div 256>>
      c0 == a[1] * b[1]
      c1 == a[1] * b[2] + a[2] * b[1] + c0 \div 256
      c2 == a[1] * b[3] + a[2] * b[2] + a[3] * b[1] + c1 \div 256
      c3 == a[1] * b[4] + a[2] * b[3] + a[3] * b[2] + a[4] * b[1] + c2 \div 256
  IN <<(c0 % 256) + 256 * (c1 % 256), (c2 % 256) + 256 * (c3 % 256)>>

\* (x + y) mod 2^32.
AddU32(x, y) ==
  LET s0 == x[1] + y[1]
  IN <<s0 % Half, (x[2] + y[2] + s0 \div Half) % Half>>

\* The uint32 of a natural number under 2^31.
U32(n) == <<n % Half, n \div Half>>

\* The hex literals of hash.ts and prng.ts.
Hex5bd1e995 == <<59797, 23505>>

Hex85ebca6b == <<51819, 34283>>

Hexc2b2ae35 == <<44597, 49842>>

Hex9e3779b9 == <<31161, 40503>>

Hex6d2b79f5 == <<31221, 27947>>

\* The sum of two numbers of four limbs.
AddLimbs(x, y) ==
  LET s1 == x[1] + y[1]
      s2 == x[2] + y[2] + s1 \div Half
      s3 == x[3] + y[3] + s2 \div Half
      s4 == x[4] + y[4] + s3 \div Half
  IN <<s1 % Half, s2 % Half, s3 % Half, s4>>

\* k times the number x of four limbs.
RECURSIVE TimesLimbs(_, _)
TimesLimbs(x, k) ==
  IF k = 0 THEN <<0, 0, 0, 0>>
  ELSE LET h == TimesLimbs(x, k \div 2)
       IN IF k % 2 = 1 THEN AddLimbs(AddLimbs(h, h), x) ELSE AddLimbs(h, h)

\* The number of bits of n.
RECURSIVE BitLength(_)
BitLength(n) == IF n = 0 THEN 0 ELSE 1 + BitLength(n \div 2)

\* The double nearest to the number x of four limbs: 53 significant bits,
\* ties to even.
RoundDouble(x) ==
  LET bits == 48 + BitLength(x[4])
      u == IF bits > 53 THEN TwoTo(bits - 53) ELSE 1
      r == x[1] % u
      down == <<x[1] - r, x[2], x[3], x[4]>>
      odd == ((x[1] \div u) % 2) = 1
      up == 2 * r > u \/ (2 * r = u /\ odd)
  IN IF up THEN AddLimbs(down, <<u, 0, 0, 0>>) ELSE down

\* ToUint32 of a double that holds a whole number.
ToUint32(d) == <<d[1], d[2]>>

\* The double that holds the uint32 w.
ToDouble(w) == <<w[1], w[2], 0, 0>>

\* hashString(str), str the sequence of the char codes.
RECURSIVE hashChars(_, _, _)
hashChars(str, i, h) ==
  IF i > Len(str) THEN h
  ELSE LET h1 == imul(Xor(h, U32(str[i])), Hex5bd1e995)
       IN hashChars(str, i + 1, Xor(h1, Ushr(h1, 15)))

hashString(str) ==
  LET h0 == hashChars(str, 1, U32(0))
      h1 == Xor(h0, Ushr(h0, 16))
      h2 == imul(h1, Hex85ebca6b)
      h3 == Xor(h2, Ushr(h2, 13))
      h4 == imul(h3, Hexc2b2ae35)
  IN Xor(h4, Ushr(h4, 16))

\* Math.floor(Math.abs(seed)) >>> 0 for a numeric seed: [num, negative] is
\* a whole number by its magnitude in four limbs, [nan] is NaN, [inf,
\* negative] an infinity; >>> 0 turns NaN and the infinities into 0.
FloorAbsUint32(seed) ==
  IF "nan" \in DOMAIN seed \/ "inf" \in DOMAIN seed THEN U32(0)
  ELSE ToUint32(seed.num)

\* A normalizeSeed without the || 1.
normalizeSeedKeepZero(seed) ==
  IF "str" \in DOMAIN seed THEN hashString(seed.str)
  ELSE FloorAbsUint32(seed)

\* normalizeSeed(seed): seed is [str], the char codes of a string, or a
\* numeric seed. No path of it throws.
normalizeSeed(seed) ==
  IF "str" \in DOMAIN seed THEN hashString(seed.str)
  ELSE IF FloorAbsUint32(seed) = U32(0) THEN U32(1) ELSE FloorAbsUint32(seed)

combineSeed(seed1, seed2) ==
  LET c0 == Xor(seed1, seed2)
      c1 == imul(c0, Hex9e3779b9)
      c2 == Xor(c1, Ushr(c1, 16))
      c3 == imul(c2, Hex85ebca6b)
  IN Xor(c3, Ushr(c3, 13))

\* createPrng(seed): the state is a JavaScript number.
createPrng(seed) == [state |-> ToDouble(seed)]

\* nextUint32(prng): [prng, result]. prng.state += 0x6d2b79f5 is an addition
\* of doubles; the bit operations read the sum modulo 2^32.
nextUint32(prng) ==
  LET state == RoundDouble(AddLimbs(prng.state, ToDouble(Hex6d2b79f5)))
      z0 == ToUint32(state)
      z1 == imul(Xor(z0, Ushr(z0, 15)), OrSmall(z0, 1))
      z2 == Xor(z1, AddU32(z1, imul(Xor(z1, Ushr(z1, 7)), OrSmall(z1, 61))))
  IN [prng |-> [state |-> state], result |-> Xor(z2, Ushr(z2, 14))]

\* getPrngState(prng).
getPrngState(prng) == [state |-> prng.state]

\* setPrngState(state): state.state >>> 0.
setPrngState(state) == [state |-> ToDouble(ToUint32(state.state))]

\* The number n as a seed or a label.
Num(n) == [num |-> ToDouble(U32(Abs(n))), negative |-> n < 0]

\* String(n) for a whole number n >= 0: the char codes of its digits.
RECURSIVE DigitChars(_)
DigitChars(n) ==
  IF n < 10 THEN <<48 + n>> ELSE Append(DigitChars(n \div 10), 48 + (n % 10))

\* new RngStream(seed, label). The other fields are the history of the
\* object: the number of values produced, the values by their number,
\* whether forks were made of it (1), whether fromState made it, and for a fork
\* the parent, the label and the number of values the parent had produced.
RngStream(seed, label) ==
  [originalSeed |-> seed, prng |-> createPrng(seed), label |-> label,
   draws |-> 0, outs |-> {}, forks |-> 0, restored |-> FALSE,
   origin |-> [parent |-> 0]]

\* A fork that derives the seed from the current position of the parent.
forkFromPosition(stream, label) ==
  LET labelSeed == IF "str" \in DOMAIN label THEN hashString(label.str)
                   ELSE ToUint32(label.num)
      text == IF "str" \in DOMAIN label THEN label.str ELSE DigitChars(label.num[1])
  IN RngStream(combineSeed(ToUint32(stream.prng.state), labelSeed),
               IF stream.label # <<>> THEN stream.label \o <<47>> \o text ELSE text)

\* stream.fork(label): the new stream; label is [str] or [num].
fork(stream, label) ==
  LET labelSeed == IF "str" \in DOMAIN label THEN hashString(label.str)
                   ELSE ToUint32(label.num)
      forkedSeed == combineSeed(stream.originalSeed, labelSeed)
      text == IF "str" \in DOMAIN label THEN label.str ELSE DigitChars(label.num[1])
      forkedLabel == IF stream.label # <<>> THEN stream.label \o <<47>> \o text ELSE text
  IN RngStream(forkedSeed, forkedLabel)

\* stream.nextUint32(): the stream afterwards, with the value in outs.
streamNextUint32(stream) ==
  LET r == nextUint32(stream.prng)
  IN [stream EXCEPT !.prng = r.prng, !.draws = @ + 1,
                    !.outs = @ \cup {<<stream.draws + 1, r.result>>}]

\* stream.getState().
streamGetState(stream) ==
  [originalSeed |-> stream.originalSeed, prngState |-> getPrngState(stream.prng)]

\* RngStream.fromState(state, label); at is the number of values the
\* saved stream had produced.
fromState(state, label, at) ==
  [RngStream(state.originalSeed, label) EXCEPT
     !.prng = setPrngState(state.prngState), !.draws = at, !.restored = TRUE]

\* new Rng(seed): streams maps a name to the object of the stream.
createRng(seed) ==
  [masterSeed |-> normalizeSeed(seed), streams |-> <<>>, loadedFrom |-> 0]

\* this.streams.get(name): the object, 0 for undefined.
StreamOf(R, name) ==
  IF \E i \in 1..Len(R.streams) : R.streams[i].name = name
  THEN R.streams[CHOOSE i \in 1..Len(R.streams) : R.streams[i].name = name].id
  ELSE 0

\* rng.getState() of the manager R over the objects.
rngGetState(R, objects) ==
  [masterSeed |-> R.masterSeed,
   streams |-> [i \in 1..Len(R.streams) |->
                  [name |-> R.streams[i].name,
                   state |-> streamGetState(objects[R.streams[i].id]),
                   at |-> objects[R.streams[i].id].draws]]]

\* loadState throws: the master seeds differ.
loadStateThrows(R, state) == state.masterSeed # R.masterSeed

\* rng.loadState(state): [R, objects], the restored streams are new objects.
loadState(R, objects, state) ==
  [R |-> [R EXCEPT !.streams = [i \in 1..Len(state.streams) |->
                                  [name |-> state.streams[i].name,
                                   id |-> Len(objects) + i]]],
   objects |-> objects \o [i \in 1..Len(state.streams) |->
                             fromState(state.streams[i].state, state.streams[i].name,
                                       state.streams[i].at)]]

\* ---- SpecRng: a manager made from a seed and one made from its saved
\* state, their named streams, and the values drawn from them.

MaxRngManagers == 2

MaxStreamObjects == 3

MaxDraws == 3

\* The seeds: 42 and "".
RngSeeds == {Num(42), [str |-> <<>>]}

\* The stream names "a" and "b".
StreamNames == {<<97>>, <<98>>}

\* The fork labels "c" and 7.
ForkLabels == {[str |-> <<99>>], Num(7)}

\* The most calls of nextUint32 after which the state of any stream is
\* still under 2^53 - 2^32, and the state a new stream has then.
BlockDraws == 4917756

BlockAdvance == TimesLimbs(ToDouble(Hex6d2b79f5), BlockDraws)

InitRng ==
  /\ EngineStarted(<<>>, NoState)
  /\ CacheAbsent
  /\ hydro = NoHydro
  /\ \E seed \in RngSeeds :
       rng = [pc |-> "rng", managers |-> <<createRng(seed)>>, objects |-> <<>>,
              ret |-> "ok"]

\* createRng(seed).
CreateRng(seed) ==
  /\ rng.pc = "rng"
  /\ Len(rng.managers) < MaxRngManagers
  /\ rng' = [rng EXCEPT !.managers = Append(@, createRng(seed)), !.ret = "ok"]
  /\ UNCHANGED <<vars, cvars, hydro>>

\* A stream(name) that makes a new object at every call.
StreamAnew(m, name) ==
  /\ rng.pc = "rng"
  /\ m \in 1..Len(rng.managers)
  /\ Len(rng.objects) < MaxStreamObjects
  /\ LET streamSeed == combineSeed(rng.managers[m].masterSeed, hashString(name))
         others == SelectSeq(rng.managers[m].streams, LAMBDA e : e.name # name)
     IN rng' = [rng EXCEPT
          !.objects = Append(@, RngStream(streamSeed, name)),
          !.managers[m].streams = Append(others, [name |-> name,
                                                  id |-> Len(rng.objects) + 1]),
          !.ret = "ok"]
  /\ UNCHANGED <<vars, cvars, hydro>>

\* rng.stream(name) on the manager m.
Stream(m, name) ==
  /\ rng.pc = "rng"
  /\ m \in 1..Len(rng.managers)
  /\ IF StreamOf(rng.managers[m], name) # 0
     THEN rng' = [rng EXCEPT !.ret = "ok"]
     ELSE /\ Len(rng.objects) < MaxStreamObjects
          /\ LET streamSeed == combineSeed(rng.managers[m].masterSeed, hashString(name))
             IN rng' = [rng EXCEPT
                  !.objects = Append(@, RngStream(streamSeed, name)),
                  !.managers[m].streams = Append(@, [name |-> name,
                                                     id |-> Len(rng.objects) + 1]),
                  !.ret = "ok"]
  /\ UNCHANGED <<vars, cvars, hydro>>

\* stream.nextUint32() or stream.float() on the object id: float is the
\* same value over 2^32.
Draw(id) ==
  /\ rng.pc = "rng"
  /\ id \in 1..Len(rng.objects)
  /\ Cardinality(rng.objects[id].outs) < MaxDraws
  /\ rng' = [rng EXCEPT !.objects[id] = streamNextUint32(@), !.ret = "ok"]
  /\ UNCHANGED <<vars, cvars, hydro>>

\* BlockDraws calls of stream.float() in a row on a stream that has
\* produced nothing yet: every sum is exact, the values are not kept.
DrawBlock(id) ==
  /\ rng.pc = "rng"
  /\ id \in 1..Len(rng.objects)
  /\ rng.objects[id].draws = 0
  /\ ~rng.objects[id].restored
  /\ rng' = [rng EXCEPT
       !.objects[id].prng = [state |-> AddLimbs(@.state, BlockAdvance)],
       !.objects[id].draws = BlockDraws,
       !.ret = "ok"]
  /\ UNCHANGED <<vars, cvars, hydro>>

\* stream.fork(label) on the object id.
Fork(id, label) ==
  /\ rng.pc = "rng"
  /\ id \in 1..Len(rng.objects)
  /\ Len(rng.objects) < MaxStreamObjects
  /\ rng' = [rng EXCEPT
       !.objects = Append([@ EXCEPT ![id].forks = 1],
                          [fork(rng.objects[id], label) EXCEPT
                             !.origin = [parent |-> id, label |-> label,
                                         at |-> rng.objects[id].draws]]),
       !.ret = "ok"]
  /\ UNCHANGED <<vars, cvars, hydro>>

\* createRngFromState(m.getState()): a new manager, or the error of
\* loadState.
CreateRngFromState(m) ==
  /\ rng.pc = "rng"
  /\ m \in 1..Len(rng.managers)
  /\ Len(rng.managers) < MaxRngManagers
  /\ LET state == rngGetState(rng.managers[m], rng.objects)
         R == [createRng([num |-> ToDouble(state.masterSeed), negative |-> FALSE])
                 EXCEPT !.loadedFrom = m]
         r == loadState(R, rng.objects, state)
     IN IF loadStateThrows(R, state)
        THEN rng' = [rng EXCEPT !.ret = "Cannot load state: masterSeed mismatch"]
        ELSE /\ Len(r.objects) <= MaxStreamObjects
             /\ rng' = [rng EXCEPT !.managers = Append(@, r.R), !.objects = r.objects,
                                   !.ret = "ok"]
  /\ UNCHANGED <<vars, cvars, hydro>>

\* n.loadState(m.getState()) on two managers.
LoadState(n, m) ==
  /\ rng.pc = "rng"
  /\ m \in 1..Len(rng.managers)
  /\ n \in 1..Len(rng.managers)
  /\ n # m
  /\ LET state == rngGetState(rng.managers[m], rng.objects)
         r == loadState([rng.managers[n] EXCEPT !.loadedFrom = m], rng.objects, state)
     IN IF loadStateThrows(rng.managers[n], state)
        THEN rng' = [rng EXCEPT !.ret = "Cannot load state: masterSeed mismatch"]
        ELSE /\ Len(r.objects) <= MaxStreamObjects
             /\ rng' = [rng EXCEPT !.managers[n] = r.R, !.objects = r.objects,
                                   !.ret = "ok"]
  /\ UNCHANGED <<vars, cvars, hydro>>

NextRng ==
  \/ \E m \in 1..MaxRngManagers, name \in StreamNames : Stream(m, name)
  \/ \E id \in 1..MaxStreamObjects : Draw(id)
  \/ \E id \in 1..MaxStreamObjects : DrawBlock(id)
  \/ \E m \in 1..MaxRngManagers : CreateRngFromState(m)
  \/ \E n \in 1..MaxRngManagers, m \in 1..MaxRngManagers : LoadState(n, m)

SpecRng == InitRng /\ [][NextRng]_allvars

\* ---- SpecFork: managers made from seeds, their named streams, the forks
\* of the streams and of the forks, and the values drawn from them.

NextFork ==
  \/ \E seed \in RngSeeds : CreateRng(seed)
  \/ \E m \in 1..MaxRngManagers, name \in StreamNames : Stream(m, name)
  \/ \E id \in 1..MaxStreamObjects : Draw(id)
  \/ \E id \in 1..MaxStreamObjects, label \in ForkLabels : Fork(id, label)

SpecFork == InitRng /\ [][NextFork]_allvars

\* The two streams gave the same value wherever both gave their i-th.
SameOutputs(a, b) ==
  \A p \in a.outs, q \in b.outs : p[1] = q[1] => p[2] = q[2]

\* C29: two forks with the same label of parents with the same seed give
\* the same values, however many values the parent had produced before the
\* fork; and a stream gives the same values whether forks were made of it
\* or not.
C29_ForkIsPositionStable ==
  rng # NoRng =>
    /\ \A f, g \in 1..Len(rng.objects) :
         (/\ rng.objects[f].origin.parent # 0
          /\ rng.objects[g].origin.parent # 0
          /\ rng.objects[f].origin.label = rng.objects[g].origin.label
          /\ rng.objects[rng.objects[f].origin.parent].originalSeed
               = rng.objects[rng.objects[g].origin.parent].originalSeed)
           => SameOutputs(rng.objects[f], rng.objects[g])
    /\ \A a, b \in 1..Len(rng.objects) :
         (/\ ~rng.objects[a].restored
          /\ ~rng.objects[b].restored
          /\ rng.objects[a].originalSeed = rng.objects[b].originalSeed)
           => SameOutputs(rng.objects[a], rng.objects[b])

\* Two forks with one label were made of a stream, one before a value was
\* drawn from it and one after, both forks have given a value, and the
\* parent has given one since.
C29_Witness ==
  /\ rng # NoRng
  /\ \E f, g \in 1..Len(rng.objects) :
       /\ rng.objects[f].origin.parent # 0
       /\ rng.objects[g].origin.parent = rng.objects[f].origin.parent
       /\ rng.objects[g].origin.label = rng.objects[f].origin.label
       /\ rng.objects[f].origin.at = 0
       /\ rng.objects[g].origin.at > 0
       /\ rng.objects[f].outs # {}
       /\ rng.objects[g].outs # {}
       /\ rng.objects[rng.objects[f].origin.parent].draws > rng.objects[g].origin.at

\* C30: a manager loaded from the state of the manager m gives, for every
\* stream name, the values m gives from the time of the state on.
C30_LoadedContinues ==
  rng # NoRng =>
    \A n \in 1..Len(rng.managers) :
      rng.managers[n].loadedFrom # 0 =>
        \A name \in StreamNames :
          LET a == StreamOf(rng.managers[rng.managers[n].loadedFrom], name)
              b == StreamOf(rng.managers[n], name)
          IN (a # 0 /\ b # 0) => SameOutputs(rng.objects[a], rng.objects[b])

\* The manager m holds for the name an object that a call stream(name) on
\* it made and returned: loadState is the one other writer of the map, and
\* the objects it puts there are made by fromState.
Memoized(m, name) ==
  /\ StreamOf(rng.managers[m], name) # 0
  /\ ~rng.objects[StreamOf(rng.managers[m], name)].restored

C32_StateIsUint32 ==
  rng # NoRng =>
    \A id \in 1..Len(rng.objects) :
      /\ rng.objects[id].prng.state = ToDouble(ToUint32(rng.objects[id].prng.state))
      /\ streamGetState(rng.objects[id]).prngState.state
           = ToDouble(ToUint32(rng.objects[id].prng.state))

\* ---- SpecSeed: normalizeSeed on one seed: a whole number, a number past
\* 2^32, a string, NaN or an infinity.

MaxSeed == 50

NaNSeed == [nan |-> TRUE]

InfiniteSeeds == {[inf |-> TRUE, negative |-> FALSE], [inf |-> TRUE, negative |-> TRUE]}

\* 2^32 and 2^32 + 5.
WideSeeds == {[num |-> <<0, 0, 1, 0>>, negative |-> FALSE],
              [num |-> <<5, 0, 1, 0>>, negative |-> FALSE]}

SeedInputs ==
  {Num(n) : n \in (0 - MaxSeed)..MaxSeed} \cup {[str |-> <<>>], [str |-> <<97>>]}
    \cup {NaNSeed} \cup InfiniteSeeds \cup WideSeeds

NotCalled == [called |-> FALSE]

InitSeed ==
  /\ EngineStarted(<<>>, NoState)
  /\ CacheAbsent
  /\ hydro = NoHydro
  /\ \E seed \in SeedInputs : rng = [pc |-> "seed", seed |-> seed, ret |-> NotCalled]

\* normalizeSeed(seed): ret is what the call returned.
NormalizeSeed ==
  /\ rng.pc = "seed"
  /\ rng.ret = NotCalled
  /\ rng' = [rng EXCEPT !.ret = [called |-> TRUE, threw |-> FALSE,
                                 value |-> normalizeSeed(rng.seed)]]
  /\ UNCHANGED <<vars, cvars, hydro>>

NextSeed == NormalizeSeed

SpecSeed == InitSeed /\ [][NextSeed]_allvars

NonFinite(seed) == seed = NaNSeed \/ seed \in InfiniteSeeds

\* C33: normalizeSeed on NaN or on an infinity throws and returns no seed.
C33_NonFiniteFails ==
  (rng # NoRng /\ rng.pc = "seed" /\ rng.ret.called /\ NonFinite(rng.seed))
    => rng.ret.threw

\* C33 as the code has it: normalizeSeed on NaN or on an infinity returns
\* the seed 1 and throws nothing.
C33_NonFiniteIsOne ==
  (rng # NoRng /\ rng.pc = "seed" /\ rng.ret.called /\ NonFinite(rng.seed))
    => (~rng.ret.threw /\ rng.ret.value = U32(1))

\* normalizeSeed(NaN) has returned.
C33_Witness ==
  rng # NoRng /\ rng.pc = "seed" /\ rng.ret.called /\ rng.seed = NaNSeed

\* ---- World metadata (terrainGen.ts): the coarse land mask, the distance
\* to the coast and the ocean mask of a grid of raw height samples. Arrays
\* are functions on 0..count-1; heights are whole numbers.

\* Neighbours that stop at the edge of the grid: a cell at the edge is its
\* own neighbour there.
getCoarseNeighborsNoWrap(x, y, res) ==
  <<<<IF x + 1 < res THEN x + 1 ELSE x, y>>,
    <<IF x > 0 THEN x - 1 ELSE x, y>>,
    <<x, IF y + 1 < res THEN y + 1 ELSE y>>,
    <<x, IF y > 0 THEN y - 1 ELSE y>>>>

\* getCoarseNeighbors(x, y, res).
getCoarseNeighbors(x, y, res) ==
  <<<<(x + 1) % res, y>>,
    <<(x - 1 + res) % res, y>>,
    <<x, (y + 1) % res>>,
    <<x, (y - 1 + res) % res>>>>

\* The sorted copy with one more value in its place.
SortedInsert(sorted, v, k) ==
  SubSeq(sorted, 1, k) \o <<v>> \o SubSeq(sorted, k + 1, Len(sorted))

\* Float32Array.from(samples).sort(): the values in ascending order.
RECURSIVE SortedSamples(_, _, _, _)
SortedSamples(samples, count, i, sorted) ==
  IF i = count THEN sorted
  ELSE SortedSamples(samples, count, i + 1,
         SortedInsert(sorted, samples[i],
                      Cardinality({j \in 1..Len(sorted) : sorted[j] <= samples[i]})))

\* findOceanBias(samples, targetFraction): targetFraction is num/den < 1.
findOceanBias(samples, count, targetFraction) ==
  0 - SortedSamples(samples, count, 0, <<>>)[
        MulRat(count, targetFraction.num, targetFraction.den) + 1]

\* Infinity in a distance map.
Infinity == 0 - 1

\* d > x for a distance d that may be Infinity.
Farther(d, x) == d = Infinity \/ d > x

\* landMask[ny * res + nx] === 1 for one of the neighbours.
TouchesLand(landMask, res, neighbors) ==
  \E k \in 1..4 : landMask[neighbors[k][2] * res + neighbors[k][1]] = 1

\* computeCoastDistance, first loop over the cells idx..count-1: st is
\* [dist, queue].
RECURSIVE CoastCells(_, _, _, _)
CoastCells(landMask, res, idx, st) ==
  IF idx = res * res THEN st
  ELSE CoastCells(landMask, res, idx + 1,
         IF landMask[idx] = 0
            /\ TouchesLand(landMask, res, getCoarseNeighbors(idx % res, idx \div res, res))
         THEN [dist |-> [st.dist EXCEPT ![idx] = 0], queue |-> Append(st.queue, idx)]
         ELSE st)

\* computeCoastDistance, the neighbours k..4 of a dequeued cell at distance
\* currentDist.
RECURSIVE RelaxNeighbors(_, _, _, _, _, _)
RelaxNeighbors(landMask, res, neighbors, currentDist, k, st) ==
  IF k > 4 THEN st
  ELSE RelaxNeighbors(landMask, res, neighbors, currentDist, k + 1,
         IF landMask[neighbors[k][2] * res + neighbors[k][1]] = 0
            /\ Farther(st.dist[neighbors[k][2] * res + neighbors[k][1]], currentDist + 1)
         THEN [dist |-> [st.dist EXCEPT ![neighbors[k][2] * res + neighbors[k][1]] =
                           currentDist + 1],
               queue |-> Append(st.queue, neighbors[k][2] * res + neighbors[k][1])]
         ELSE st)

\* computeCoastDistance, the loop while (head < queue.length); head counts
\* from 0.
RECURSIVE CoastFlood(_, _, _, _)
CoastFlood(landMask, res, head, st) ==
  IF head >= Len(st.queue) THEN st.dist
  ELSE CoastFlood(landMask, res, head + 1,
         RelaxNeighbors(landMask, res,
           getCoarseNeighbors(st.queue[head + 1] % res, st.queue[head + 1] \div res, res),
           st.dist[st.queue[head + 1]], 1, st))

\* computeCoastDistance(landMask, res).
computeCoastDistance(landMask, res) ==
  CoastFlood(landMask, res, 0,
    CoastCells(landMask, res, 0,
      [dist |-> [i \in 0..(res * res - 1) |-> Infinity], queue |-> <<>>]))

\* computeOceanMask, first loop over the cells i..count-1: m is
\* [globalMinIdx, isInfinity, globalMinVal].
RECURSIVE GlobalMin(_, _, _, _, _)
GlobalMin(rawSamples, seaLevelBiasM, count, i, m) ==
  IF i = count THEN m
  ELSE GlobalMin(rawSamples, seaLevelBiasM, count, i + 1,
         IF m.isInfinity \/ rawSamples[i] + seaLevelBiasM < m.globalMinVal
         THEN [globalMinIdx |-> i, isInfinity |-> FALSE,
               globalMinVal |-> rawSamples[i] + seaLevelBiasM]
         ELSE m)

\* computeOceanMask, the neighbours k..4 of a dequeued cell: st is
\* [oceanMask, queue].
RECURSIVE MarkNeighbors(_, _, _, _, _)
MarkNeighbors(belowSea, res, neighbors, k, st) ==
  IF k > 4 THEN st
  ELSE MarkNeighbors(belowSea, res, neighbors, k + 1,
         IF belowSea[neighbors[k][2] * res + neighbors[k][1]] = 1
            /\ st.oceanMask[neighbors[k][2] * res + neighbors[k][1]] = 0
         THEN [oceanMask |-> [st.oceanMask EXCEPT
                                ![neighbors[k][2] * res + neighbors[k][1]] = 1],
               queue |-> Append(st.queue, neighbors[k][2] * res + neighbors[k][1])]
         ELSE st)

\* computeOceanMask, the loop while (head < queue.length).
RECURSIVE OceanFlood(_, _, _, _)
OceanFlood(belowSea, res, head, st) ==
  IF head >= Len(st.queue) THEN st.oceanMask
  ELSE OceanFlood(belowSea, res, head + 1,
         MarkNeighbors(belowSea, res,
           getCoarseNeighbors(st.queue[head + 1] % res, st.queue[head + 1] \div res, res),
           1, st))

\* computeOceanMask from the flood on: no ocean when the lowest cell is not
\* below sea level.
FloodFrom(belowSea, res, globalMinIdx) ==
  IF belowSea[globalMinIdx] = 0 THEN [i \in 0..(res * res - 1) |-> 0]
  ELSE OceanFlood(belowSea, res, 0,
         [oceanMask |-> [i \in 0..(res * res - 1) |-> IF i = globalMinIdx THEN 1 ELSE 0],
          queue |-> <<globalMinIdx>>])

\* computeOceanMask(rawSamples, seaLevelBiasM, res).
computeOceanMask(rawSamples, seaLevelBiasM, res) ==
  FloodFrom([i \in 0..(res * res - 1) |->
               IF rawSamples[i] + seaLevelBiasM < 0 THEN 1 ELSE 0],
            res,
            GlobalMin(rawSamples, seaLevelBiasM, res * res, 0,
                      [globalMinIdx |-> 0, isInfinity |-> TRUE, globalMinVal |-> 0])
              .globalMinIdx)

\* computeWorldMetadata from the land mask on.
MetadataWith(samples, seaLevelBiasM, res, landMask) ==
  [seaLevelBiasM |-> seaLevelBiasM,
   coastDistanceMap |-> computeCoastDistance(landMask, res),
   coastDistanceRes |-> res,
   coastLandMask |-> landMask,
   oceanMask |-> computeOceanMask(samples, seaLevelBiasM, res)]

\* computeWorldMetadata from the bias on.
MetadataFrom(samples, seaLevelBiasM, res) ==
  MetadataWith(samples, seaLevelBiasM, res,
    [i \in 0..(res * res - 1) |-> IF samples[i] + seaLevelBiasM >= 0 THEN 1 ELSE 0])

\* computeWorldMetadata() on the samples that rawHeight gave.
computeWorldMetadata(samples, res, targetOceanFraction) ==
  MetadataFrom(samples, findOceanBias(samples, res * res, targetOceanFraction), res)

\* ---- SpecOcean: computeWorldMetadata on a coarse grid of 3 by 3 samples.

CoarseSampleRes == 3

MaxSample == 2

\* targetOceanFraction: 0.5 and the default 0.65.
OceanFractions == {[num |-> 1, den |-> 2], [num |-> 13, den |-> 20]}

NoMetadata == [none |-> TRUE]

InitOcean ==
  /\ EngineStarted(<<>>, NoState)
  /\ CacheAbsent
  /\ rng = NoRng
  /\ \E samples \in [0..(CoarseSampleRes * CoarseSampleRes - 1) -> 0..MaxSample],
        targetOceanFraction \in OceanFractions :
       hydro = [pc |-> "metadata", samples |-> samples, res |-> CoarseSampleRes,
                targetOceanFraction |-> targetOceanFraction, metadata |-> NoMetadata]

ComputeWorldMetadata ==
  /\ hydro.pc = "metadata"
  /\ hydro.metadata = NoMetadata
  /\ hydro' = [hydro EXCEPT !.metadata =
                 computeWorldMetadata(hydro.samples, hydro.res, hydro.targetOceanFraction)]
  /\ UNCHANGED <<vars, cvars, rng>>

NextOcean == ComputeWorldMetadata

SpecOcean == InitOcean /\ [][NextOcean]_allvars

\* The cells of the grid below sea level.
BelowSeaCells(h) ==
  {i \in DOMAIN h.samples : h.samples[i] + h.metadata.seaLevelBiasM < 0}

\* The cells i and j are next to each other on the torus, left and right
\* or up and down.
Adjacent(i, j, res) ==
  \/ /\ i \div res = j \div res
     /\ ((i % res) - (j % res) + res) % res \in {1, res - 1}
  \/ /\ i % res = j % res
     /\ ((i \div res) - (j \div res) + res) % res \in {1, res - 1}

\* The cells that a path of adjacent cells of the set joins to a cell of
\* part.
RECURSIVE ConnectedTo(_, _, _)
ConnectedTo(part, cells, res) ==
  IF \E j \in cells \ part : \E i \in part : Adjacent(i, j, res)
  THEN ConnectedTo(part \cup {j \in cells : \E i \in part : Adjacent(i, j, res)},
                   cells, res)
  ELSE part

\* C34: oceanMask is 1 exactly for the cells below sea level that cells
\* below sea level join, over the edges of the grid too, to the lowest cell
\* of the grid, and no cell has oceanMask 1 and coarseLandMask 1.
C34_OceanIsConnectedLowland ==
  (hydro # NoHydro /\ hydro.pc = "metadata" /\ hydro.metadata # NoMetadata) =>
    /\ \E g \in DOMAIN hydro.samples :
         /\ \A i \in DOMAIN hydro.samples : hydro.samples[g] <= hydro.samples[i]
         /\ \A i \in DOMAIN hydro.samples :
              hydro.metadata.oceanMask[i] = 1
                <=> /\ i \in BelowSeaCells(hydro)
                    /\ g \in BelowSeaCells(hydro)
                    /\ i \in ConnectedTo({g}, BelowSeaCells(hydro), hydro.res)
    /\ \A i \in DOMAIN hydro.samples :
         ~(hydro.metadata.oceanMask[i] = 1 /\ hydro.metadata.coastLandMask[i] = 1)

\* The metadata of a grid with an ocean that reaches over an edge of the
\* grid and a cell below sea level that is no part of it.
C34_Witness ==
  /\ hydro # NoHydro /\ hydro.pc = "metadata" /\ hydro.metadata # NoMetadata
  /\ \E i \in BelowSeaCells(hydro) : hydro.metadata.oceanMask[i] = 0
  /\ \E i, j \in DOMAIN hydro.samples :
       /\ hydro.metadata.oceanMask[i] = 1 /\ hydro.metadata.oceanMask[j] = 1
       /\ i % hydro.res = 0 /\ j = i + hydro.res - 1
       /\ hydro.metadata.oceanMask[i + 1] = 0

\* C35: a loop has at most one timer pending, and a loop that is stopped
\* and has no tick executing has none pending, so that no tick of it runs
\* after the stop; this holds wherever start and stop were called from,
\* between ticks or inside a callback of a tick.
C35_OneTimerNoTickAfterStop ==
  \A e \in Loops :
    /\ Cardinality(PendingOf(e)) <= 1
    /\ (~loops[e].running /\ cur # e) => PendingOf(e) = {}

\* ---- SpecSmallCache: the callers of SpecBorders on a manager that holds
\* fewer chunks than the world has.

BorderCapacities == {1, 3}

InitSmallCache ==
  /\ EngineStarted(<<>>, NoState)
  /\ CacheAbsent
  /\ rng = NoRng
  /\ \E terrainFn \in TerrainFns, config \in BorderHydrologyConfigs,
        maxResidentChunks \in BorderCapacities :
       hydro = [pc |-> "borders",
                M |-> createLandChunkManager(
                        [BorderConfig EXCEPT !.maxResidentChunks = maxResidentChunks],
                        TRUE),
                tiles |-> <<>>, terrainFn |-> terrainFn, config |-> config,
                last |-> NoCall, calls |-> 0, waterings |-> 0]

SpecSmallCache == InitSmallCache /\ [][NextBorders]_allvars

\* C36: when stepChunkHydrologyWithBorders has returned and water moved,
\* the chunk object whose arrays it wrote is the object the manager holds
\* for the chunk (cx, cy), whatever the capacity of the manager.
C36_RoutedTileIsCached ==
  (hydro # NoHydro /\ hydro.pc = "borders" /\ hydro.last # NoCall
   /\ hydro.last.stats.activeCells > 0)
    => /\ CacheHas(hydro.M.cache, hydro.last.routed)
       /\ hydro.M.nodes[CacheGet(hydro.M.cache, hydro.last.routed)].chunk.id
            = hydro.last.id

\* C37: registerSystem with a valid cadence and a name that an earlier
\* registerSystem call has bound (the entry holds a caller's handler, not
\* the placeholder of a restore) throws and changes nothing: the entry
\* keeps its handler, its cadence and its accumulator, and no closure is
\* handed out.
C37_DuplicateSystem ==
  [][\A n \in SystemNames, c \in RegistryCadences, f \in Fns :
       (/\ lastCall'.op = "registerSystem"
        /\ ~registerSystemThrows(c)
        /\ Has(loops[1].systems, n)
        /\ loops[1].systems[IndexOf(loops[1].systems, n, 1)].handler # NoopFn
        /\ RegisterSystem(1, n, c, f))
         => /\ lastCall'.threw
            /\ UNCHANGED <<loops, timers, unreg, pc, hIdx, sIdx, tickLog>>]_vars

\* C38: a call of an unregister closure of a handler, when the name is
\* bound to a handler of a later registration (another function than the
\* one whose registration returned the closure), leaves the handlers as
\* they are.
C38_UnregisterOnlyOwn ==
  [][\A u \in unreg :
       (/\ lastCall'.op = "unregisterHandler"
        /\ UnregisterHandler(u)
        /\ Has(loops[u.eng].handlers, u.name)
        /\ loops[u.eng].handlers[IndexOf(loops[u.eng].handlers, u.name, 1)].handler # u.fn)
         => loops'[u.eng].handlers = loops[u.eng].handlers]_vars

\* C39: between ticks the accumulator of every system, which was 0 when
\* the system was registered, is at least 0 and below the cadence of the
\* system, whatever the cadence; so every tick that starts with the
\* accumulators in that range ends with them in it.
C39_AccumulatorBelowCadence ==
  pc = "idle" =>
    \A e \in Loops : \A i \in 1..Len(loops[e].systems) :
      /\ 0 <= loops[e].systems[i].accumulated
      /\ loops[e].systems[i].accumulated < loops[e].systems[i].cadenceSeconds

\* C39 as the code has it: the same for the systems whose cadence is 60 s,
\* the step of a tick, or longer.
C39_AccumulatorBelowLongCadence ==
  pc = "idle" =>
    \A e \in Loops : \A i \in 1..Len(loops[e].systems) :
      loops[e].systems[i].cadenceSeconds >= DtGameStepSeconds =>
        /\ 0 <= loops[e].systems[i].accumulated
        /\ loops[e].systems[i].accumulated < loops[e].systems[i].cadenceSeconds

\* After two ticks a system of cadence 90 has fired and carries 30.
C39_Witness ==
  /\ pc = "idle"
  /\ loops[1].stepNumber = 2
  /\ \E i \in 1..Len(loops[1].systems) :
       /\ loops[1].systems[i].cadenceSeconds = 90
       /\ loops[1].systems[i].accumulated = 30
       /\ Fires(1, loops[1].systems[i].name) = 1

\* The handlers the running tick of loop 1 has still to invoke.
PendingHandlers ==
  SubSeq(loops[1].handlers, hIdx + 1, Len(loops[1].handlers))

\* A call made by a handler while the handlers loop of a tick runs.
CallInHandler == pc = "inHandler" /\ pc' = "inHandler" /\ tickLog' = tickLog

====
